---- MODULE Spec2Model ----
(***************************************************************************)
(* Shotx: the client (src/client.js) with its offline queue, its durable   *)
(* IndexedDB mirror, request timeouts and the connect / auth_success       *)
(* handshake, together with the part of the server (src/server.js) that    *)
(* answers a request.  One action is one JavaScript task: a public call,   *)
(* a socket event, a timer, an acknowledgement or an IndexedDB callback,   *)
(* run to completion together with the promise continuations it wakes.    *)
(***************************************************************************)
EXTENDS Integers, Sequences, FiniteSets, TLC

\* ------------------------------------------------------------- bounds
MaxReq == 4
MaxSock == 2
MaxAuth == 2
MaxPrior == 2
MaxPeer == 2
MaxRoomMsg == 2
MaxPush == 2

\* ------------------------------------------------------------- inputs
\* the `timeout` option left out of a call (JavaScript undefined)
Undef == 0 - 1
GlobalTimeouts == {0, 3}
CallTimeouts == {Undef, 0, 2}
Routes == {"echo", "missing", "boom", "void"}
Rooms == {"r1", "r2"}
Tokens == {"alice", "bob"}
\* the tokens of a handshake: none (or the empty string), one the auth handler knows,
\* one it maps to null and one it throws on
HandshakeTokens == {"", "alice", "mallory", "crash"}

\* ------------------------------------------------------------- state
VARIABLES
    timeout,        \* this.timeout (global default)
    isConnected,    \* this.isConnected
    socket,         \* this.socket: 0 is null, else the socket's number
    offlineQueue,   \* this.offlineQueue: entries [id, live]; live = has resolve/reject
    joinedRooms,    \* this.joinedRooms, in insertion order
    useIndexedDB,   \* this.useIndexedDB
    db,             \* this.db is set (the database is open)
    initPc,         \* _initIndexedDB: "open" | "load" | "done", or "off" without IndexedDB
    loadSnap,       \* what the getAll() of _loadPersistedMessages will return
    store,          \* the IndexedDB object store: records [id, ts] in key order
    now,            \* Date.now()
    sockState,      \* per socket: "unused" | "connecting" | "connected" | "refused" | "closed"
    authPend,       \* per socket: the server's auth_success is on its way
    wasConnected,   \* per socket: its 'connect' handler has run
    listeners,      \* per socket: the listeners bound to routeEvent
    conn,           \* per socket: the connect() call that made it [tok, tmo, ms, timer, p, err]
    reqs,           \* every request made: [type, kind, room, tmo, prior]; prior = made by an earlier process
    rs,             \* per request, in this process: [p, tx, timer, ms]
    hs,             \* the runs of the auth_success handler
    wire,           \* ids handed to socket.emit, in order (by this process)
    enq,            \* ids pushed on offlineQueue, in order (by this process)
    earlyRet,       \* what the last connect() made while connected returned
    srvUp,          \* the server process runs (no rejection escaped a listener)
    peerLog,        \* what a second, raw connection sent and the acknowledgements it got
    members,        \* per room: the server-side sockets in it (adapter.rooms)
    roomLog,        \* per room: the messages stored for it (this.db), in order
    flushes,        \* the processRoomMessages runs under way: [room, by, pc, snap]
    inbox,          \* per connection: the room messages emitted to it, in order
    sends,          \* the messages to(room).send was called with, in order: [n, room]
    emitted,        \* the messages handed to io.to(room).emit, in order
    messageHandlers, \* this.messageHandlers of the server: per route its handler, "" for none
    authHandler,    \* this.authHandler of the server
    setupRet,       \* the last onMessage / setAuthHandler call: [call, route, handler, ret]
    clientMessageHandlers, \* this.messageHandlers of the client: per route its handler, "" for none
    pushLog,        \* the inbound messages the route listener has run for: [msg, on, n, run]
    idbFails        \* the requests to IndexedDB fail (open, add, getAll, clear)

vars == <<timeout, isConnected, socket, offlineQueue, joinedRooms, useIndexedDB, db,
          initPc, loadSnap, store, now, sockState, authPend, wasConnected,
          listeners, conn, reqs, rs, hs, wire, enq, earlyRet,
          srvUp, peerLog, members, roomLog, flushes, inbox, sends, emitted,
          messageHandlers, authHandler, setupRet, clientMessageHandlers, pushLog,
          idbFails>>

\* what the client's inbound routing works on
pushVars == <<clientMessageHandlers, pushLog>>

\* what the registration calls of the server work on
setupVars == <<messageHandlers, authHandler, setupRet>>

\* the state of the server
serverVars == <<srvUp, peerLog, members, roomLog, flushes, inbox, sends, emitted>>

\* ------------------------------------------------------------- promises
Pending == [st |-> "pending", msg |-> "", label |-> "", n |-> 0]
Resolved(data) == [st |-> "resolved", msg |-> "", label |-> "", n |-> data]
Rejected(msg, label, n) == [st |-> "rejected", msg |-> msg, label |-> label, n |-> n]

\* no such call was made
NoCall == [st |-> "none", msg |-> "", label |-> "", n |-> 0]

\* the value of a `return;` and of a handler that returns nothing (JavaScript undefined)
NoValue == 0

\* a promise settles once: resolve / reject on a settled promise does nothing
Settle(p, outcome) == IF p.st = "pending" THEN outcome ELSE p

\* this.socket.emit on a null socket throws inside the promise executor
TypeErr == Rejected("TypeError", "", 0)

\* the event name send() uses
routeEvent == "message"

\* `timeout ?? this.timeout`
EffectiveMs(tmo, global) == IF tmo # Undef THEN tmo ELSE global

\* `meta.type || eventName`
TimeoutLabel(type, eventName) == IF type # "" THEN type ELSE eventName

\* mutant of TimeoutError: the message carries the global timeout, not the effective one
TimeoutErrorGlobal(type, eventName, m) == Rejected("TIMEOUT", TimeoutLabel(type, eventName), timeout)

\* new Error(`TIMEOUT: ${meta.type || eventName} (${ms}ms)`)
TimeoutError(type, eventName, m) == Rejected("TIMEOUT", TimeoutLabel(type, eventName), m)

\* new Error(`TIMEOUT: connect (${ms}ms)`)
ConnectTimeoutError(m) == Rejected("TIMEOUT", "connect", m)

\* ------------------------------------------------------------- server
\* the routes the server has a handler for when it starts to listen, each handler named
\* after its route: its own control routes, "echo", and three whose handlers fail: "boom" throws new Error('Handler exploded'), "mute" throws an
\* Error without message, "void" rejects without a reason (undefined)
Registered == {"sx_join", "sx_leave", "sx_file", "echo", "boom", "mute", "void"}

\* the route names a message or a registration can carry
RouteNames == Registered \cup {"missing", "news", ""}

\* this.messageHandlers.get(type) of a route without handler (undefined)
NoHandler == ""

\* the routes of the messages the server pushes to the client, and the handlers the
\* application gives the client: one that returns, one that throws and an async one
\* that rejects
ClientRoutes == {"news", "alert"}
ClientHandlers == {"returns", "throws", "rejects"}

\* an inbound 'message' of the client: without meta, with meta but no type, and of
\* the routes
PushMessages ==
    {[hasMeta |-> FALSE, hasType |-> FALSE, type |-> ""],
     [hasMeta |-> TRUE, hasType |-> FALSE, type |-> ""]}
    \cup {[hasMeta |-> TRUE, hasType |-> TRUE, type |-> t] : t \in ClientRoutes}

\* mutant of RouteListener: await handler(...) without the try / catch
RouteListenerNoCatch(message, handlers) ==
    IF ~message.hasMeta \/ ~message.hasType
    THEN [handler |-> NoHandler, caught |-> FALSE, escaped |-> FALSE]
    ELSE LET handler == handlers[message.type]
         IN  IF handler = NoHandler
             THEN [handler |-> NoHandler, caught |-> FALSE, escaped |-> FALSE]
             ELSE [handler |-> handler, caught |-> FALSE,
                   escaped |-> handler \in {"throws", "rejects"}]

\* the listener _setupMessageRouting binds to routeEvent: the handler it calls, whether
\* its catch ran, and whether an exception left the listener
RouteListener(message, handlers) ==
    IF ~message.hasMeta \/ ~message.hasType
    THEN [handler |-> NoHandler, caught |-> FALSE, escaped |-> FALSE]
    ELSE LET handler == handlers[message.type]
         IN  IF handler = NoHandler
             THEN [handler |-> NoHandler, caught |-> FALSE, escaped |-> FALSE]
             ELSE [handler |-> handler, caught |-> handler \in {"throws", "rejects"},
                   escaped |-> FALSE]

\* mutant of ClientOnMessageFn: the handler is stored whether there is a socket or not
ClientOnMessageFnAlways(table, sock, route, handler) == [table EXCEPT ![route] = handler]

\* onMessage(route, handler) of the client on its table: nothing without a socket,
\* else this.messageHandlers.set(route, handler)
ClientOnMessageFn(table, sock, route, handler) ==
    IF sock = 0 THEN table ELSE [table EXCEPT ![route] = handler]

\* the arguments of the registration calls: a route that is a string or not (123), a
\* handler that is a function or not ('not a function')
RouteInputs == {[isString |-> TRUE, name |-> "echo"], [isString |-> TRUE, name |-> "news"],
                [isString |-> FALSE, name |-> ""]}
HandlerInputs == {[isFunction |-> TRUE, id |-> "echo"], [isFunction |-> TRUE, id |-> "boom"],
                  [isFunction |-> FALSE, id |-> ""]}
AuthHandlerInputs == {[isFunction |-> TRUE, id |-> "app"], [isFunction |-> TRUE, id |-> "default"],
                      [isFunction |-> FALSE, id |-> ""]}

\* no registration call was made since the server started to listen
NoSetup == [call |-> "none", route |-> [isString |-> FALSE, name |-> ""],
            handler |-> [isFunction |-> FALSE, id |-> ""], ret |-> "none"]

\* mutant of OnMessageFn: the handler is stored before the parameters are checked
OnMessageFnSetFirst(table, route, handler) ==
    LET stored == IF route.isString THEN [table EXCEPT ![route.name] = handler.id] ELSE table
    IN  IF ~route.isString \/ ~handler.isFunction
        THEN [table |-> stored, ret |-> "threw"]
        ELSE [table |-> stored, ret |-> "this"]

\* onMessage(route, handler) on the route table: throw on invalid parameters, else
\* this.messageHandlers.set(route, handler) and return this
OnMessageFn(table, route, handler) ==
    IF ~route.isString \/ ~handler.isFunction
    THEN [table |-> table, ret |-> "threw"]
    ELSE [table |-> [table EXCEPT ![route.name] = handler.id], ret |-> "this"]

\* setAuthHandler(handler) on this.authHandler
SetAuthHandlerFn(current, handler) ==
    IF ~handler.isFunction
    THEN [handler |-> current, ret |-> "threw"]
    ELSE [handler |-> handler.id, ret |-> "this"]

\* the handler of the route throws (or rejects)
HandlerThrows(type) == type \in {"boom", "mute", "void"}

\* what the handler throws: whether it is null / undefined, and its message
Thrown(type) ==
    [nullish |-> type = "void", message |-> IF type = "boom" THEN "Handler exploded" ELSE ""]

\* `error.message || 'Error processing message'`
ErrorText(msg) == IF msg # "" THEN msg ELSE "Error processing message"

\* what a handler returns: echo returns its data, sx_join / sx_leave return undefined
HandlerResult(type, data) == IF type = "echo" THEN data ELSE NoValue

\* mutant of HandleMessage: the handler lookup comes before the check of meta.type
HandleMessageLookupFirst(message) ==
    IF ~message.isObject
    THEN [success |-> FALSE, code |-> 2001, error |-> "Invalid message format", arg |-> "",
          data |-> NoValue, invoked |-> FALSE, acks |-> 1, escaped |-> FALSE]
    ELSE IF messageHandlers[message.type] = NoHandler
    THEN [success |-> FALSE, code |-> 2003, error |-> "Unknown message type", arg |-> message.type,
          data |-> NoValue, invoked |-> FALSE, acks |-> 1, escaped |-> FALSE]
    ELSE IF ~message.hasType
    THEN [success |-> FALSE, code |-> 2002, error |-> "Invalid message type", arg |-> "",
          data |-> NoValue, invoked |-> FALSE, acks |-> 1, escaped |-> FALSE]
    ELSE [success |-> TRUE, code |-> 0, error |-> "", arg |-> "",
          data |-> HandlerResult(messageHandlers[message.type], message.data),
          invoked |-> TRUE, acks |-> 1, escaped |-> FALSE]

\* SxServer.handleMessage: the response envelope given to the acknowledgement callback
\* (error with its interpolated argument arg), whether a handler was invoked, how many
\* times the callback was called and whether an exception escaped handleMessage.
\* In the catch block `error.message` of a null / undefined error throws a TypeError
\* before the callback is called.
HandleMessage(message) ==
    IF ~message.isObject
    THEN [success |-> FALSE, code |-> 2001, error |-> "Invalid message format", arg |-> "",
          data |-> NoValue, invoked |-> FALSE, acks |-> 1, escaped |-> FALSE]
    ELSE IF ~message.hasType
    THEN [success |-> FALSE, code |-> 2002, error |-> "Invalid message type", arg |-> "",
          data |-> NoValue, invoked |-> FALSE, acks |-> 1, escaped |-> FALSE]
    ELSE IF messageHandlers[message.type] = NoHandler
    THEN [success |-> FALSE, code |-> 2003, error |-> "Unknown message type", arg |-> message.type,
          data |-> NoValue, invoked |-> FALSE, acks |-> 1, escaped |-> FALSE]
    ELSE LET handler == messageHandlers[message.type]
         IN  IF HandlerThrows(handler)
             THEN IF Thrown(handler).nullish
                  THEN [success |-> FALSE, code |-> 0, error |-> "", arg |-> "",
                        data |-> NoValue, invoked |-> TRUE, acks |-> 0, escaped |-> TRUE]
                  ELSE [success |-> FALSE, code |-> 2004,
                        error |-> ErrorText(Thrown(handler).message),
                        arg |-> "", data |-> NoValue, invoked |-> TRUE, acks |-> 1,
                        escaped |-> FALSE]
             ELSE [success |-> TRUE, code |-> 0, error |-> "", arg |-> "",
                   data |-> HandlerResult(handler, message.data),
                   invoked |-> TRUE, acks |-> 1, escaped |-> FALSE]

\* the auth handler the application sets: the session object of a token, 0 for null;
\* defaultAuthHandler returns {} (here 3) for every token
AuthHandler(token) ==
    IF authHandler = "default" THEN 3
    ELSE IF token = "alice" THEN 1 ELSE IF token = "mallory" THEN 0 ELSE 2

\* the auth handler throws (or rejects) on the token
AuthThrows(token) == authHandler # "default" /\ token = "crash"

\* mutant of AuthMiddleware: the auth handler is asked before the token is looked at
AuthMiddlewareHandlerFirst(token) ==
    IF AuthThrows(token) THEN [next |-> "AUTH_ERROR", auth |-> 0]
    ELSE IF AuthHandler(token) = 0 \/ token = "" THEN [next |-> "AUTH_FAIL", auth |-> 0]
    ELSE [next |-> "ok", auth |-> AuthHandler(token)]

\* io.use(async (socket, next) => ...): what next is called with, and socket.auth
AuthMiddleware(token) ==
    IF token = "" THEN [next |-> "AUTH_NULL", auth |-> 0]
    ELSE IF AuthThrows(token) THEN [next |-> "AUTH_ERROR", auth |-> 0]
    ELSE IF AuthHandler(token) # 0 THEN [next |-> "ok", auth |-> AuthHandler(token)]
    ELSE [next |-> "AUTH_FAIL", auth |-> 0]

\* the envelope _emitMessage builds for request id: { meta, data }
Envelope(R, id) == [isObject |-> TRUE, hasType |-> TRUE, type |-> R[id].type, data |-> id,
                    room |-> R[id].room]

\* the acknowledgement callback of _emitMessage: the outcome for the promise
AckOutcome(response) ==
    IF ~response.success
    THEN Rejected(IF response.error # "" THEN response.error ELSE "Unknown error", response.arg, 0)
    ELSE Resolved(response.data)

\* ------------------------------------------------------------- server rooms
Sockets == 1..MaxSock

\* a second connection to the server, made by a raw socket.io client
Peer == MaxSock + 1
Conns == Sockets \cup {Peer}

\* the fields of the server a message handler or a flush may change
Srv == [members |-> members, roomLog |-> roomLog, flushes |-> flushes, inbox |-> inbox,
        emitted |-> emitted]

CommitSrv(V) ==
    /\ members' = V.members
    /\ roomLog' = V.roomLog
    /\ flushes' = V.flushes
    /\ inbox' = V.inbox
    /\ emitted' = V.emitted

\* socket.io: a server-side socket that disconnects leaves every room
LeaveAll(mem, c) == [r \in Rooms |-> mem[r] \ {c}]

\* this.io.to(room).emit('message', message) for the messages ms, one after the other
EmitToRoom(V, room, ms) ==
    [V EXCEPT !.inbox = [c \in Conns |-> IF c \in V.members[room] THEN @[c] \o ms ELSE @[c]],
              !.emitted = @ \o ms]

\* the sx_join handler: socket.join(data.room); this.processRoomMessages(data.room),
\* which runs up to its `await this.db.values(room)`
SxJoin(V, c, room) ==
    [V EXCEPT !.members[room] = @ \cup {c},
              !.flushes = Append(@, [room |-> room, by |-> c, pc |-> "read", snap |-> <<>>])]

\* the sx_leave handler: socket.leave(data.room)
SxLeave(V, c, room) == [V EXCEPT !.members[room] = @ \ {c}]

\* an exception that escapes the async 'message' listener is an unhandled rejection:
\* it ends the process or is only reported, as the runtime is set up
AfterHandling(r) == IF r.escaped THEN BOOLEAN ELSE {TRUE}

\* the server receives message on connection c: handleMessage and what the handler does
ServerReceive(V, c, message) ==
    LET r == HandleMessage(message)
    IN  IF ~r.invoked THEN V
        ELSE IF messageHandlers[message.type] = "sx_join" THEN SxJoin(V, c, message.room)
        ELSE IF messageHandlers[message.type] = "sx_leave" THEN SxLeave(V, c, message.room)
        ELSE V

\* ------------------------------------------------------------- client helpers
\* The fields a task may change, gathered so that a task and the promise
\* continuations it wakes are computed as one step.
Cur == [q |-> offlineQueue, reqs |-> reqs, rs |-> rs, wire |-> wire, enq |-> enq,
        store |-> store, now |-> now, joined |-> joinedRooms, hs |-> hs, conn |-> conn]

Commit(S) ==
    /\ offlineQueue' = S.q
    /\ reqs' = S.reqs
    /\ rs' = S.rs
    /\ wire' = S.wire
    /\ enq' = S.enq
    /\ store' = S.store
    /\ now' = S.now
    /\ joinedRooms' = S.joined
    /\ hs' = S.hs
    /\ conn' = S.conn
    /\ Len(S.reqs) <= MaxReq

\* a request that has not been handed to _emitMessage
FreshRs == [p |-> Pending, tx |-> "none", timer |-> "off", ms |-> Undef]

\* meta.id = uuidv7(): a new request, numbered in creation order
NewReq(S, type, kind, room, tmo) ==
    [S EXCEPT !.reqs = Append(@, [type |-> type, kind |-> kind, room |-> room,
                                  tmo |-> tmo, prior |-> FALSE]),
              !.rs = Append(@, FreshRs)]

\* mutant of EmitMessage: no timer is armed
EmitMessageNoTimer(S, id, tmo) ==
    LET m == EffectiveMs(tmo, timeout)
    IN  IF socket = 0
        THEN [S EXCEPT !.rs[id].ms = m, !.rs[id].tx = "failed", !.rs[id].p = Settle(@, TypeErr)]
        ELSE [S EXCEPT !.rs[id].ms = m,
                       !.rs[id].tx = IF sockState[socket] = "connected" THEN "sent" ELSE "buffered",
                       !.wire = Append(@, id)]

\* _emitMessage(eventName, data, meta, { timeout })
EmitMessage(S, id, tmo) ==
    LET m == EffectiveMs(tmo, timeout)
        t == IF m > 0 THEN "armed" ELSE "off"
    IN  IF socket = 0
        THEN [S EXCEPT !.rs[id].ms = m, !.rs[id].timer = t, !.rs[id].tx = "failed",
                       !.rs[id].p = Settle(@, TypeErr)]
        ELSE [S EXCEPT !.rs[id].ms = m, !.rs[id].timer = t,
                       !.rs[id].tx = IF sockState[socket] = "connected" THEN "sent" ELSE "buffered",
                       !.wire = Append(@, id)]

\* _saveMessageToIndexedDB(message): store.add with timestamp Date.now()
SaveMessage(S, id) ==
    IF ~useIndexedDB \/ ~db \/ idbFails THEN S
    ELSE [S EXCEPT !.store = Append(@, [id |-> id, ts |-> S.now]), !.now = @ + 1]

\* mutant of ClientEmit: a request equal to one already waiting in the queue is not
\* pushed again
ClientEmitDedup(S, id, tmo) ==
    IF ~isConnected
    THEN IF \E i \in 1..Len(S.q) : S.reqs[S.q[i].id].type = S.reqs[id].type
                                      /\ S.reqs[S.q[i].id].tmo = S.reqs[id].tmo
         THEN S
         ELSE LET S1 == [S EXCEPT !.q = Append(@, [id |-> id, live |-> TRUE]),
                                  !.enq = Append(@, id)]
              IN  IF useIndexedDB THEN SaveMessage(S1, id) ELSE S1
    ELSE EmitMessage(S, id, tmo)

\* emit(eventName, data, meta, { timeout }) for the request just made
ClientEmit(S, id, tmo) ==
    IF ~isConnected
    THEN LET S1 == [S EXCEPT !.q = Append(@, [id |-> id, live |-> TRUE]),
                             !.enq = Append(@, id)]
         IN  IF useIndexedDB THEN SaveMessage(S1, id) ELSE S1
    ELSE EmitMessage(S, id, tmo)

\* messages.sort((a, b) => a.timestamp - b.timestamp): a stable insertion sort
RECURSIVE InsertByTs(_, _)
InsertByTs(sorted, m) ==
    IF sorted = <<>> THEN <<m>>
    ELSE IF Head(sorted).ts <= m.ts THEN <<Head(sorted)>> \o InsertByTs(Tail(sorted), m)
    ELSE <<m>> \o sorted

RECURSIVE SortByTs(_)
SortByTs(ms) ==
    IF ms = <<>> THEN <<>>
    ELSE InsertByTs(SortByTs(SubSeq(ms, 1, Len(ms) - 1)), ms[Len(ms)])

\* the queue entries _loadPersistedMessages pushes: resolve = reject = null
Reloaded(ms) == [i \in 1..Len(ms) |-> [id |-> ms[i].id, live |-> FALSE]]

\* mutant of QueueShift: pop() instead of shift()
QueueShiftLast(q) == [e |-> q[Len(q)], rest |-> SubSeq(q, 1, Len(q) - 1)]

\* this.offlineQueue.shift()
QueueShift(q) == [e |-> Head(q), rest |-> Tail(q)]

\* ------------------------------------------------------------- auth_success handler
\* mutant of FinishAuth: the outcome of connect() is overwritten, not settled once
FinishAuthOverwrite(S, h) ==
    LET s == S.hs[h].sock
    IN  [S EXCEPT !.hs[h].pc = "done", !.conn[s].p = Resolved(AuthHandler(S.conn[s].tok))]

\* resolve(data) at the end of the auth_success handler
FinishAuth(S, h) ==
    LET s == S.hs[h].sock
    IN  [S EXCEPT !.hs[h].pc = "done",
                  !.conn[s].p = Settle(@, Resolved(AuthHandler(S.conn[s].tok)))]

\* the rooms the for-of loop of rejoinRooms has still to visit: the entries of the
\* Set it has not passed; a room deleted and added again is a new entry at the end
RoomsLeft(S, h) == SelectSeq(S.joined, LAMBDA r : r \notin S.hs[h].seen)

\* mutant of RejoinNext: the loop ends after the first room
RejoinNextOnce(S, h) ==
    LET left == RoomsLeft(S, h)
    IN  IF left = <<>> \/ S.hs[h].seen # {} THEN FinishAuth(S, h)
        ELSE LET room == Head(left)
                 id == Len(S.reqs) + 1
                 S1 == NewReq(S, "sx_join", "rejoin", room, Undef)
                 S2 == ClientEmit(S1, id, Undef)
             IN  [S2 EXCEPT !.hs[h].pc = "rejoin", !.hs[h].wait = id,
                            !.hs[h].seen = @ \cup {room}]

\* one turn of the loop of rejoinRooms: await this._joinRoom(room)
RejoinNext(S, h) ==
    LET left == RoomsLeft(S, h)
    IN  IF left = <<>> THEN FinishAuth(S, h)
        ELSE LET room == Head(left)
                 id == Len(S.reqs) + 1
                 S1 == NewReq(S, "sx_join", "rejoin", room, Undef)
                 S2 == ClientEmit(S1, id, Undef)
             IN  [S2 EXCEPT !.hs[h].pc = "rejoin", !.hs[h].wait = id,
                            !.hs[h].seen = @ \cup {room}]

\* mutant of RejoinRooms: the room being rejoined is taken out of joinedRooms
RejoinRoomsUntrack(S, h) ==
    IF ~isConnected \/ S.joined = <<>> THEN FinishAuth(S, h)
    ELSE [RejoinNext(S, h) EXCEPT !.joined = Tail(@)]

\* rejoinRooms()
RejoinRooms(S, h) ==
    IF ~isConnected \/ S.joined = <<>> THEN FinishAuth(S, h)
    ELSE RejoinNext(S, h)

\* the end of processQueue: clear the store when every entry was processed
ProcessQueueEnd(S, h) ==
    IF S.hs[h].cnt = S.hs[h].orig /\ useIndexedDB
    THEN IF ~db THEN RejoinRooms(S, h)
         ELSE [S EXCEPT !.store = IF idbFails THEN @ ELSE <<>>, !.hs[h].pc = "clear"]
    ELSE RejoinRooms(S, h)

\* the while loop of processQueue, up to its next await
RECURSIVE ProcessQueueLoop(_, _)
ProcessQueueLoop(S, h) ==
    IF S.q = <<>> THEN ProcessQueueEnd(S, h)
    ELSE LET sh == QueueShift(S.q)
             S1 == EmitMessage([S EXCEPT !.q = sh.rest], sh.e.id, Undef)
         IN  IF sh.e.live
             THEN ProcessQueueLoop([S1 EXCEPT !.hs[h].cnt = @ + 1], h)
             ELSE IF S1.rs[sh.e.id].p.st = "pending"
             THEN [S1 EXCEPT !.hs[h].pc = "pq", !.hs[h].wait = sh.e.id]
             ELSE ProcessQueueLoop(S1, h)

\* processQueue()
ProcessQueue(S, h) ==
    IF ~isConnected THEN RejoinRooms(S, h)
    ELSE ProcessQueueLoop([S EXCEPT !.hs[h].orig = Len(S.q)], h)

\* mutant of OnSettled: join() and leave() update joinedRooms however the request
\* has settled
OnSettledAlways(S, id) ==
    LET waiting == {h \in 1..Len(S.hs) : S.hs[h].wait = id}
        ok == S.rs[id].p.st = "resolved"
        r == S.reqs[id]
    IN  IF waiting # {}
        THEN LET h == CHOOSE x \in waiting : TRUE
                 S1 == [S EXCEPT !.hs[h].wait = 0]
             IN  IF S.hs[h].pc = "pq"
                 THEN ProcessQueueLoop([S1 EXCEPT !.hs[h].cnt = IF ok THEN @ + 1 ELSE @], h)
                 ELSE RejoinNext(S1, h)
        ELSE IF ~r.prior /\ r.kind = "join"
        THEN [S EXCEPT !.joined = IF \E i \in 1..Len(@) : @[i] = r.room THEN @
                                  ELSE Append(@, r.room)]
        ELSE IF ~r.prior /\ r.kind = "leave"
        THEN [S EXCEPT !.joined = SelectSeq(@, LAMBDA x : x # r.room),
                       !.hs = [h \in 1..Len(@) |-> [@[h] EXCEPT !.seen = @ \ {r.room}]]]
        ELSE S

\* what runs when the promise of request id has settled: the handler run
\* awaiting it goes on, or join() / leave() update joinedRooms
OnSettled(S, id) ==
    LET waiting == {h \in 1..Len(S.hs) : S.hs[h].wait = id}
        ok == S.rs[id].p.st = "resolved"
        r == S.reqs[id]
    IN  IF waiting # {}
        THEN LET h == CHOOSE x \in waiting : TRUE
                 S1 == [S EXCEPT !.hs[h].wait = 0]
             IN  IF S.hs[h].pc = "pq"
                 THEN ProcessQueueLoop([S1 EXCEPT !.hs[h].cnt = IF ok THEN @ + 1 ELSE @], h)
                 ELSE RejoinNext(S1, h)
        ELSE IF ~r.prior /\ ok /\ r.kind = "join"
        THEN [S EXCEPT !.joined = IF \E i \in 1..Len(@) : @[i] = r.room THEN @
                                  ELSE Append(@, r.room)]
        ELSE IF ~r.prior /\ ok /\ r.kind = "leave"
        THEN [S EXCEPT !.joined = SelectSeq(@, LAMBDA x : x # r.room),
                       !.hs = [h \in 1..Len(@) |-> [@[h] EXCEPT !.seen = @ \ {r.room}]]]
        ELSE S

\* ------------------------------------------------------------- initial state
\* a socket no connect() call has made yet
NoConn == [tok |-> "", tmo |-> Undef, ms |-> Undef, timer |-> "off", p |-> Pending,
           err |-> ""]

\* what an earlier process of the page left in the store: k send() calls it made
\* while offline, saved by _saveMessageToIndexedDB and not cleared
PriorReqs(k) == [i \in 1..k |-> [type |-> "echo", kind |-> "send", room |-> "",
                                 tmo |-> Undef, prior |-> TRUE]]
PriorStore(k) == [i \in 1..k |-> [id |-> i, ts |-> i - 1]]

\* new SxClient(url, opts, { timeout }): the constructor, with _initIndexedDB started
Init ==
    /\ timeout \in GlobalTimeouts
    /\ isConnected = FALSE
    /\ socket = 0
    /\ offlineQueue = <<>>
    /\ joinedRooms = <<>>
    /\ useIndexedDB \in BOOLEAN
    /\ db = FALSE
    /\ initPc = IF useIndexedDB THEN "open" ELSE "off"
    /\ loadSnap = <<>>
    /\ \E k \in 0..MaxPrior :
        /\ k > 0 => useIndexedDB
        /\ store = PriorStore(k)
        /\ reqs = PriorReqs(k)
        /\ rs = [i \in 1..k |-> FreshRs]
        /\ now = k
    /\ sockState = [s \in Sockets |-> "unused"]
    /\ authPend = [s \in Sockets |-> FALSE]
    /\ wasConnected = [s \in Sockets |-> FALSE]
    /\ listeners = [s \in Sockets |-> 0]
    /\ conn = [s \in Sockets |-> NoConn]
    /\ hs = <<>>
    /\ wire = <<>>
    /\ enq = <<>>
    /\ earlyRet = NoCall
    /\ srvUp = TRUE
    /\ peerLog = <<>>
    /\ members = [r \in Rooms |-> {}]
    /\ roomLog = [r \in Rooms |-> <<>>]
    /\ flushes = <<>>
    /\ inbox = [c \in Conns |-> <<>>]
    /\ sends = <<>>
    /\ emitted = <<>>
    /\ messageHandlers = [r \in RouteNames |-> IF r \in Registered THEN r ELSE NoHandler]
    /\ authHandler = "app"
    /\ setupRet = NoSetup
    /\ clientMessageHandlers = [r \in ClientRoutes |-> NoHandler]
    /\ pushLog = <<>>
    /\ idbFails = FALSE

\* the requests in flight on a socket that is closed or dropped get no acknowledgement
LoseInFlight(R) ==
    [i \in 1..Len(R) |-> IF R[i].tx \in {"sent", "buffered"} THEN [R[i] EXCEPT !.tx = "lost"] ELSE R[i]]

\* packets socket.io buffered while the socket was not connected are sent on connect
FlushBuffered(R) ==
    [i \in 1..Len(R) |-> IF R[i].tx = "buffered" THEN [R[i] EXCEPT !.tx = "sent"] ELSE R[i]]

\* ------------------------------------------------------------- public calls
\* send(type, data, { timeout })
Send(type, tmo) ==
    /\ Len(reqs) < MaxReq
    /\ Commit(ClientEmit(NewReq(Cur, type, "send", "", tmo), Len(reqs) + 1, tmo))
    /\ UNCHANGED <<idbFails, pushVars, setupVars, serverVars, earlyRet, timeout, isConnected, socket, useIndexedDB, db, initPc, loadSnap,
                   sockState, authPend, wasConnected, listeners>>

\* join(room): the request; joinedRooms.add(room) follows its resolution
Join(room) ==
    /\ Len(reqs) < MaxReq
    /\ Commit(ClientEmit(NewReq(Cur, "sx_join", "join", room, Undef), Len(reqs) + 1, Undef))
    /\ UNCHANGED <<idbFails, pushVars, setupVars, serverVars, earlyRet, timeout, isConnected, socket, useIndexedDB, db, initPc, loadSnap,
                   sockState, authPend, wasConnected, listeners>>

\* leave(room): the request; joinedRooms.delete(room) follows its resolution
Leave(room) ==
    /\ Len(reqs) < MaxReq
    /\ Commit(ClientEmit(NewReq(Cur, "sx_leave", "leave", room, Undef), Len(reqs) + 1, Undef))
    /\ UNCHANGED <<idbFails, pushVars, setupVars, serverVars, earlyRet, timeout, isConnected, socket, useIndexedDB, db, initPc, loadSnap,
                   sockState, authPend, wasConnected, listeners>>

\* mutant of Connect: attemptConnection() without this.socket.disconnect()
ConnectKeepOld(token, tmo) ==
    /\ ~isConnected
    /\ \E s \in Sockets :
        /\ sockState[s] = "unused"
        /\ \A t \in Sockets : t < s => sockState[t] # "unused"
        /\ LET m == EffectiveMs(tmo, timeout)
           IN  conn' = [conn EXCEPT ![s] = [tok |-> token, tmo |-> tmo, ms |-> m,
                                           timer |-> IF m > 0 THEN "armed" ELSE "off",
                                           p |-> Pending, err |-> ""]]
        /\ sockState' = [sockState EXCEPT ![s] = "connecting"]
        /\ socket' = s
    /\ authPend' = [t \in Sockets |-> FALSE]
    /\ UNCHANGED <<idbFails, pushVars, setupVars, serverVars, rs, earlyRet, timeout, isConnected,
                   offlineQueue, joinedRooms, useIndexedDB, db, initPc, loadSnap, store, now,
                   wasConnected, listeners, reqs, hs, wire, enq>>

\* connect(token, { timeout }) while not connected: attemptConnection()
Connect(token, tmo) ==
    /\ ~isConnected
    /\ \E s \in Sockets :
        /\ sockState[s] = "unused"
        /\ \A t \in Sockets : t < s => sockState[t] # "unused"
        /\ LET m == EffectiveMs(tmo, timeout)
           IN  conn' = [conn EXCEPT ![s] = [tok |-> token, tmo |-> tmo, ms |-> m,
                                           timer |-> IF m > 0 THEN "armed" ELSE "off",
                                           p |-> Pending, err |-> ""]]
        /\ sockState' = [t \in Sockets |-> IF t = s THEN "connecting"
                                            ELSE IF t = socket THEN "closed" ELSE sockState[t]]
        /\ socket' = s
    /\ authPend' = [t \in Sockets |-> FALSE]
    /\ rs' = IF socket # 0 THEN LoseInFlight(rs) ELSE rs
    /\ members' = IF socket # 0 THEN LeaveAll(members, socket) ELSE members
    /\ UNCHANGED <<idbFails, pushVars, setupVars, srvUp, peerLog, roomLog, flushes, inbox, sends, emitted, earlyRet, timeout, isConnected, offlineQueue, joinedRooms, useIndexedDB, db, initPc,
                   loadSnap, store, now, wasConnected, listeners, reqs, hs, wire, enq>>

\* the fields disconnect() works on
ConnState == [isConnected |-> isConnected, socket |-> socket, sockState |-> sockState,
              authPend |-> authPend, rs |-> rs, threw |-> FALSE]

\* mutant of DisconnectFn: this.socket.disconnect() without the `if (this.socket)`
DisconnectFnUnguarded(c) ==
    IF c.socket # 0
    THEN [c EXCEPT !.isConnected = FALSE,
                   !.sockState[c.socket] = "closed",
                   !.socket = 0,
                   !.authPend = [t \in Sockets |-> FALSE],
                   !.rs = LoseInFlight(@)]
    ELSE [c EXCEPT !.threw = TRUE]

\* disconnect(): with a socket, isConnected = false, socket.disconnect(), socket = null
DisconnectFn(c) ==
    IF c.socket # 0
    THEN [c EXCEPT !.isConnected = FALSE,
                   !.sockState[c.socket] = "closed",
                   !.socket = 0,
                   !.authPend = [t \in Sockets |-> FALSE],
                   !.rs = LoseInFlight(@)]
    ELSE c

\* disconnect()
Disconnect ==
    /\ LET d == DisconnectFn(ConnState)
       IN  /\ isConnected' = d.isConnected
           /\ sockState' = d.sockState
           /\ socket' = d.socket
           /\ authPend' = d.authPend
           /\ rs' = d.rs
    /\ members' = IF socket # 0 THEN LeaveAll(members, socket) ELSE members
    /\ UNCHANGED <<idbFails, pushVars, setupVars, srvUp, peerLog, roomLog, flushes, inbox, sends, emitted, earlyRet, timeout, offlineQueue, joinedRooms, useIndexedDB, db, initPc, loadSnap,
                   store, now, wasConnected, listeners, conn, reqs, hs, wire, enq>>

\* connect(token, { timeout }) while connected: `return;`
ConnectAgain(token, tmo) ==
    /\ isConnected
    /\ earlyRet' = Resolved(NoValue)
    /\ UNCHANGED <<idbFails, pushVars, setupVars, serverVars, timeout, isConnected, socket, offlineQueue, joinedRooms, useIndexedDB, db,
                   initPc, loadSnap, store, now, sockState, authPend, wasConnected, listeners,
                   conn, reqs, rs, hs, wire, enq>>

\* ------------------------------------------------------------- socket events
\* the calls of the handler of a route when one message of the route arrives on a
\* socket with n listeners of routeEvent: each listener looks the handler up and,
\* when there is one, calls it
Dispatch(n, handler) == IF handler = NoHandler THEN 0 ELSE n

\* mutant of SetupMessageRouting: socket.on without the socket.off before it
SetupMessageRoutingNoOff(n) == n + 1

\* _setupMessageRouting(): socket.off(routeEvent) removes the listeners, socket.on adds one
SetupMessageRouting(n) == LET afterOff == 0 IN afterOff + 1

\* socket.on('connect'): the handshake passed the server's auth middleware
EvConnect(s) ==
    /\ sockState[s] = "connecting"
    /\ AuthMiddleware(conn[s].tok).next = "ok"
    /\ sockState' = [sockState EXCEPT ![s] = "connected"]
    /\ isConnected' = TRUE
    /\ wasConnected' = [wasConnected EXCEPT ![s] = TRUE]
    /\ listeners' = [listeners EXCEPT ![s] = SetupMessageRouting(@)]
    /\ authPend' = [authPend EXCEPT ![s] = TRUE]
    /\ rs' = FlushBuffered(rs)
    /\ UNCHANGED <<idbFails, pushVars, setupVars, serverVars, earlyRet, timeout, socket, offlineQueue, joinedRooms, useIndexedDB, db, initPc,
                   loadSnap, store, now, conn, reqs, hs, wire, enq>>

\* socket.on('connect_error'): the auth middleware refused the handshake; the handler
\* sets isConnected = false, and socket.io does not retry a refused handshake
EvConnectError(s) ==
    /\ sockState[s] = "connecting"
    /\ AuthMiddleware(conn[s].tok).next # "ok"
    /\ sockState' = [sockState EXCEPT ![s] = "refused"]
    /\ conn' = [conn EXCEPT ![s].err = AuthMiddleware(conn[s].tok).next]
    /\ isConnected' = FALSE
    /\ UNCHANGED <<idbFails, pushVars, setupVars, serverVars, earlyRet, timeout, socket, offlineQueue, joinedRooms, useIndexedDB,
                   db, initPc, loadSnap, store, now, authPend, wasConnected, listeners, reqs,
                   rs, hs, wire, enq>>

\* socket.on('disconnect'): the transport dropped; socket.io goes on reconnecting
EvDisconnect(s) ==
    /\ sockState[s] = "connected"
    /\ sockState' = [sockState EXCEPT ![s] = "connecting"]
    /\ isConnected' = FALSE
    /\ authPend' = [authPend EXCEPT ![s] = FALSE]
    /\ rs' = LoseInFlight(rs)
    /\ members' = LeaveAll(members, s)
    /\ UNCHANGED <<idbFails, pushVars, setupVars, srvUp, peerLog, roomLog, flushes, inbox, sends, emitted, earlyRet, timeout, socket, offlineQueue, joinedRooms, useIndexedDB, db, initPc,
                   loadSnap, store, now, wasConnected, listeners, conn, reqs, hs, wire, enq>>

\* socket.on('auth_success'): clearTimeout, processQueue, rejoinRooms, resolve
EvAuthSuccess(s) ==
    /\ sockState[s] = "connected"
    /\ authPend[s]
    /\ Len(hs) < MaxAuth
    /\ authPend' = [authPend EXCEPT ![s] = FALSE]
    /\ LET h == Len(hs) + 1
           S0 == [Cur EXCEPT !.conn[s].timer = IF @ = "armed" THEN "cleared" ELSE @,
                             !.hs = Append(@, [sock |-> s, pc |-> "pq", wait |-> 0,
                                               orig |-> 0, cnt |-> 0, seen |-> {}])]
       IN  Commit(ProcessQueue(S0, h))
    /\ UNCHANGED <<idbFails, pushVars, setupVars, serverVars, earlyRet, timeout, isConnected, socket, useIndexedDB, db, initPc, loadSnap,
                   sockState, wasConnected, listeners>>

\* request id goes to sx_join or sx_leave, whose handlers return without waiting
IsControl(id) == reqs[id].type \in {"sx_join", "sx_leave"}

\* a is handed to the socket before b
Before(w, a, b) == \E i, j \in 1..Len(w) : i < j /\ w[i] = a /\ w[j] = b

\* the server handles request id and the acknowledgement callback of the request runs;
\* the packets of a socket arrive in order, so the control requests are handled in the
\* order in which they were handed to the socket, and no acknowledgement arrives
\* before the auth_success the server emitted when the connection was made
Ack(id) ==
    /\ id \in 1..Len(reqs)
    /\ rs[id].tx = "sent"
    /\ srvUp
    /\ ~authPend[socket]
    /\ IsControl(id) => \A j \in 1..Len(reqs) : ~(IsControl(j) /\ rs[j].tx = "sent" /\ Before(wire, j, id))
    /\ LET r == HandleMessage(Envelope(reqs, id))
           S0 == [Cur EXCEPT !.rs[id].tx = "acked",
                             !.rs[id].timer = IF @ = "armed" THEN "cleared" ELSE @,
                             !.rs[id].p = Settle(@, AckOutcome(r))]
           S1 == [Cur EXCEPT !.rs[id].tx = "unanswered"]
       IN  /\ Commit(IF r.acks = 0 THEN S1
                     ELSE IF rs[id].p.st = "pending" THEN OnSettled(S0, id) ELSE S0)
           /\ srvUp' \in AfterHandling(r)
           /\ CommitSrv(ServerReceive(Srv, socket, Envelope(reqs, id)))
    /\ UNCHANGED <<idbFails, pushVars, setupVars, peerLog, sends, earlyRet, timeout, isConnected, socket, useIndexedDB, db,
                   initPc, loadSnap, sockState, authPend, wasConnected, listeners>>

\* ------------------------------------------------------------- server
\* what a raw connection may emit as 'message', always with an acknowledgement callback:
\* not an object, no meta.type string, an empty type, and the routes
PeerMessages ==
    {[isObject |-> FALSE, hasType |-> FALSE, type |-> "", data |-> 0, room |-> ""],
     [isObject |-> TRUE, hasType |-> FALSE, type |-> "", data |-> 0, room |-> ""],
     [isObject |-> TRUE, hasType |-> TRUE, type |-> "", data |-> 0, room |-> ""],
     [isObject |-> TRUE, hasType |-> TRUE, type |-> "missing", data |-> 0, room |-> ""],
     [isObject |-> TRUE, hasType |-> TRUE, type |-> "echo", data |-> 7, room |-> ""],
     [isObject |-> TRUE, hasType |-> TRUE, type |-> "boom", data |-> 0, room |-> ""],
     [isObject |-> TRUE, hasType |-> TRUE, type |-> "mute", data |-> 0, room |-> ""],
     [isObject |-> TRUE, hasType |-> TRUE, type |-> "void", data |-> 0, room |-> ""]}

PeerRoomMessages ==
    {[isObject |-> TRUE, hasType |-> TRUE, type |-> t, data |-> 0, room |-> r] :
        t \in {"sx_join", "sx_leave"}, r \in Rooms}

\* socket.on('message') for a message of the raw connection: handleMessage
PeerMessage(message) ==
    /\ srvUp
    /\ Len(peerLog) < MaxPeer
    /\ LET r == HandleMessage(message)
       IN  /\ peerLog' = Append(peerLog, [msg |-> message, resp |-> r])
           /\ srvUp' \in AfterHandling(r)
    /\ CommitSrv(ServerReceive(Srv, Peer, message))
    /\ UNCHANGED <<idbFails, pushVars, setupVars, sends, earlyRet, timeout, isConnected, socket, offlineQueue, joinedRooms,
                   useIndexedDB, db, initPc, loadSnap, store, now, sockState, authPend,
                   wasConnected, listeners, conn, reqs, rs, hs, wire, enq>>

\* mutant of RoomSend: every message is added to the log of its room, also when the
\* room has sockets
RoomSendLogged(room) ==
    /\ srvUp
    /\ Len(sends) < MaxRoomMsg
    /\ LET message == [n |-> Len(sends) + 1, room |-> room]
           V0 == [Srv EXCEPT !.roomLog[room] = Append(@, message)]
       IN  /\ sends' = Append(sends, message)
           /\ CommitSrv(IF members[room] # {} THEN EmitToRoom(V0, room, <<message>>) ELSE V0)
    /\ UNCHANGED <<idbFails, pushVars, setupVars, srvUp, peerLog, earlyRet, timeout, isConnected, socket, offlineQueue,
                   joinedRooms, useIndexedDB, db, initPc, loadSnap, store, now, sockState,
                   authPend, wasConnected, listeners, conn, reqs, rs, hs, wire, enq>>

\* to(room).send(type, data): emit to the room when it has sockets, else this.db.add
RoomSend(room) ==
    /\ srvUp
    /\ Len(sends) < MaxRoomMsg
    /\ LET message == [n |-> Len(sends) + 1, room |-> room]
       IN  /\ sends' = Append(sends, message)
           /\ CommitSrv(IF members[room] # {}
                        THEN EmitToRoom(Srv, room, <<message>>)
                        ELSE [Srv EXCEPT !.roomLog[room] = Append(@, message)])
    /\ UNCHANGED <<idbFails, pushVars, setupVars, srvUp, peerLog, earlyRet, timeout, isConnected, socket, offlineQueue,
                   joinedRooms, useIndexedDB, db, initPc, loadSnap, store, now, sockState,
                   authPend, wasConnected, listeners, conn, reqs, rs, hs, wire, enq>>

\* onMessage(route, handler)
OnMessage(route, handler) ==
    /\ LET r == OnMessageFn(messageHandlers, route, handler)
       IN  /\ messageHandlers' = r.table
           /\ setupRet' = [call |-> "onMessage", route |-> route, handler |-> handler,
                           ret |-> r.ret]
    /\ UNCHANGED <<idbFails, pushVars, authHandler, serverVars, earlyRet, timeout, isConnected, socket, offlineQueue,
                   joinedRooms, useIndexedDB, db, initPc, loadSnap, store, now, sockState,
                   authPend, wasConnected, listeners, conn, reqs, rs, hs, wire, enq>>

\* setAuthHandler(handler)
SetAuthHandler(handler) ==
    /\ LET r == SetAuthHandlerFn(authHandler, handler)
       IN  /\ authHandler' = r.handler
           /\ setupRet' = [call |-> "setAuthHandler", route |-> NoSetup.route,
                           handler |-> handler, ret |-> r.ret]
    /\ UNCHANGED <<idbFails, pushVars, messageHandlers, serverVars, earlyRet, timeout, isConnected, socket,
                   offlineQueue, joinedRooms, useIndexedDB, db, initPc, loadSnap, store, now,
                   sockState, authPend, wasConnected, listeners, conn, reqs, rs, hs, wire, enq>>

\* onMessage(route, handler) of the client
ClientOnMessage(route, handler) ==
    /\ clientMessageHandlers' = ClientOnMessageFn(clientMessageHandlers, socket, route, handler)
    /\ UNCHANGED <<idbFails, pushLog, setupVars, serverVars, earlyRet, timeout, isConnected, socket,
                   offlineQueue, joinedRooms, useIndexedDB, db, initPc, loadSnap, store, now,
                   sockState, authPend, wasConnected, listeners, conn, reqs, rs, hs, wire, enq>>

\* a 'message' of the server arrives on the connected socket: each listener of
\* routeEvent runs
ClientPush(message) ==
    /\ socket # 0
    /\ sockState[socket] = "connected"
    /\ Len(pushLog) < MaxPush
    /\ pushLog' = Append(pushLog, [msg |-> message, on |-> socket, n |-> listeners[socket],
                                   run |-> RouteListener(message, clientMessageHandlers)])
    /\ UNCHANGED <<idbFails, clientMessageHandlers, setupVars, serverVars, earlyRet, timeout, isConnected,
                   socket, offlineQueue, joinedRooms, useIndexedDB, db, initPc, loadSnap, store,
                   now, sockState, authPend, wasConnected, listeners, conn, reqs, rs, hs, wire,
                   enq>>

\* processRoomMessages: this.db.values(room) reads the messages stored for the room
FlushRead(f) ==
    /\ f \in 1..Len(flushes)
    /\ flushes[f].pc = "read"
    /\ flushes' = [flushes EXCEPT ![f].pc = "emit", ![f].snap = roomLog[flushes[f].room]]
    /\ UNCHANGED <<idbFails, pushVars, setupVars, srvUp, peerLog, members, roomLog, inbox, sends, emitted, earlyRet, timeout,
                   isConnected, socket, offlineQueue, joinedRooms, useIndexedDB, db, initPc,
                   loadSnap, store, now, sockState, authPend, wasConnected, listeners, conn,
                   reqs, rs, hs, wire, enq>>

\* the rest of a sequence without its element f
RemoveAt(q, f) == SubSeq(q, 1, f - 1) \o SubSeq(q, f + 1, Len(q))

\* processRoomMessages after its await: emit every message read, then this.db.del(room)
FlushEmit(f) ==
    /\ f \in 1..Len(flushes)
    /\ flushes[f].pc = "emit"
    /\ LET room == flushes[f].room
           snap == flushes[f].snap
           V0 == [Srv EXCEPT !.flushes = RemoveAt(@, f)]
       IN  CommitSrv(IF Len(snap) > 0
                     THEN [EmitToRoom(V0, room, snap) EXCEPT !.roomLog[room] = <<>>]
                     ELSE V0)
    /\ UNCHANGED <<idbFails, pushVars, setupVars, srvUp, peerLog, sends, earlyRet, timeout, isConnected, socket, offlineQueue,
                   joinedRooms, useIndexedDB, db, initPc, loadSnap, store, now, sockState,
                   authPend, wasConnected, listeners, conn, reqs, rs, hs, wire, enq>>

\* ------------------------------------------------------------- timers
\* mutant of TimerFire: one timer shared by the requests in flight rejects them all
TimerFireAll(id) ==
    /\ id \in 1..Len(reqs)
    /\ rs[id].timer = "armed"
    /\ rs' = [i \in 1..Len(rs) |->
                IF i = id \/ rs[i].tx = "sent"
                THEN [rs[i] EXCEPT !.timer = IF i = id THEN "fired" ELSE @,
                                   !.p = Settle(@, TimeoutError(reqs[i].type, routeEvent, rs[id].ms))]
                ELSE rs[i]]
    /\ UNCHANGED <<idbFails, pushVars, setupVars, serverVars, earlyRet, timeout, isConnected, socket, offlineQueue, joinedRooms, useIndexedDB, db,
                   initPc, loadSnap, store, now, sockState, authPend, wasConnected, listeners, conn,
                   reqs, hs, wire, enq>>

\* the setTimeout callback of _emitMessage for request id
TimerFire(id) ==
    /\ id \in 1..Len(reqs)
    /\ rs[id].timer = "armed"
    /\ LET S0 == [Cur EXCEPT !.rs[id].timer = "fired",
                             !.rs[id].p = Settle(@, TimeoutError(reqs[id].type, routeEvent, rs[id].ms))]
       IN  Commit(IF rs[id].p.st = "pending" THEN OnSettled(S0, id) ELSE S0)
    /\ UNCHANGED <<idbFails, pushVars, setupVars, serverVars, earlyRet, timeout, isConnected, socket, useIndexedDB, db, initPc, loadSnap,
                   sockState, authPend, wasConnected, listeners>>

\* the setTimeout callback of connect()
ConnTimerFire(s) ==
    /\ conn[s].timer = "armed"
    /\ conn' = [conn EXCEPT ![s].timer = "fired",
                            ![s].p = Settle(@, ConnectTimeoutError(conn[s].ms))]
    /\ UNCHANGED <<idbFails, pushVars, setupVars, serverVars, earlyRet, timeout, isConnected, socket, offlineQueue, joinedRooms, useIndexedDB, db,
                   initPc, loadSnap, store, now, sockState, authPend, wasConnected, listeners,
                   reqs, rs, hs, wire, enq>>

\* ------------------------------------------------------------- IndexedDB callbacks
\* _clearPersistedMessages resolved: the handler run goes on with rejoinRooms
ClearDone(h) ==
    /\ h \in 1..Len(hs)
    /\ hs[h].pc = "clear"
    /\ Commit(RejoinRooms(Cur, h))
    /\ UNCHANGED <<idbFails, pushVars, setupVars, serverVars, earlyRet, timeout, isConnected, socket, useIndexedDB, db, initPc, loadSnap,
                   sockState, authPend, wasConnected, listeners>>

\* indexedDB.open succeeded: this.db is set and _loadPersistedMessages issues getAll()
DbOpenOk ==
    /\ initPc = "open"
    /\ ~idbFails
    /\ db' = TRUE
    /\ initPc' = "load"
    /\ loadSnap' = store
    /\ UNCHANGED <<idbFails, pushVars, setupVars, serverVars, earlyRet, timeout, isConnected, socket, offlineQueue, joinedRooms, useIndexedDB,
                   store, now, sockState, authPend, wasConnected, listeners, conn, reqs, rs,
                   hs, wire, enq>>

\* getAll() succeeded: the stored messages are sorted and pushed on offlineQueue
LoadDone ==
    /\ initPc = "load"
    /\ ~idbFails
    /\ LET loaded == Reloaded(SortByTs(loadSnap))
       IN  /\ offlineQueue' = offlineQueue \o loaded
           /\ enq' = enq \o [i \in 1..Len(loaded) |-> loaded[i].id]
    /\ initPc' = "done"
    /\ loadSnap' = <<>>
    /\ UNCHANGED <<idbFails, pushVars, setupVars, serverVars, earlyRet, timeout, isConnected, socket, joinedRooms, useIndexedDB, db, store, now,
                   sockState, authPend, wasConnected, listeners, conn, reqs, rs, hs, wire>>

\* the storage breaks (quota, private mode, a closed database): from now on the
\* requests to IndexedDB end in onerror or throw
IdbBreaks ==
    /\ useIndexedDB
    /\ ~idbFails
    /\ idbFails' = TRUE
    /\ UNCHANGED <<pushVars, setupVars, serverVars, earlyRet, timeout, isConnected, socket,
                   offlineQueue, joinedRooms, useIndexedDB, db, initPc, loadSnap, store, now,
                   sockState, authPend, wasConnected, listeners, conn, reqs, rs, hs, wire, enq>>

\* indexedDB.open failed: the catch of _initIndexedDB sets useIndexedDB = false
DbOpenFail ==
    /\ initPc = "open"
    /\ idbFails
    /\ useIndexedDB' = FALSE
    /\ initPc' = "done"
    /\ UNCHANGED <<idbFails, pushVars, setupVars, serverVars, earlyRet, timeout, isConnected,
                   socket, offlineQueue, joinedRooms, db, loadSnap, store, now, sockState,
                   authPend, wasConnected, listeners, conn, reqs, rs, hs, wire, enq>>

\* getAll() failed: the catch of _loadPersistedMessages logs it and nothing is loaded
LoadFail ==
    /\ initPc = "load"
    /\ idbFails
    /\ initPc' = "done"
    /\ loadSnap' = <<>>
    /\ UNCHANGED <<idbFails, pushVars, setupVars, serverVars, earlyRet, timeout, isConnected,
                   socket, offlineQueue, joinedRooms, useIndexedDB, db, store, now, sockState,
                   authPend, wasConnected, listeners, conn, reqs, rs, hs, wire, enq>>

\* ------------------------------------------------------------- specifications
\* The offline queue and its durable mirror: a page that may have inherited stored
\* messages, sends, one connect() at a time without connect timeout, drops of the
\* transport, disconnect() calls, acknowledgements and request timers.
Next ==
    \/ Len(reqs) < MaxReq - 1 /\ Send("echo", Undef)
    \/ Connect("alice", 0)
    \/ Disconnect
    \/ \E s \in Sockets : EvConnect(s)
    \/ \E s \in Sockets : EvDisconnect(s)
    \/ \E s \in Sockets : EvAuthSuccess(s)
    \/ \E id \in 1..MaxReq : Ack(id)
    \/ \E id \in 1..MaxReq : TimerFire(id)
    \/ \E h \in 1..MaxAuth : ClearDone(h)
    \/ DbOpenOk
    \/ LoadDone

Spec == Init /\ [][Next]_vars

\* Request timeouts: a client without IndexedDB (Node, as in the tests), sends with
\* and without a per-call timeout to a route with and without a handler.
InitT == Init /\ ~useIndexedDB

SendInputs == {<<"echo", Undef>>, <<"echo", 0>>, <<"missing", 2>>}

NextT ==
    \/ \E in \in SendInputs : Len(reqs) < MaxReq - 1 /\ Send(in[1], in[2])
    \/ Connect("alice", 0)
    \/ Disconnect
    \/ \E s \in Sockets : EvConnect(s)
    \/ \E s \in Sockets : EvDisconnect(s)
    \/ \E s \in Sockets : EvAuthSuccess(s)
    \/ \E id \in 1..MaxReq : Ack(id)
    \/ \E id \in 1..MaxReq : TimerFire(id)

SpecT == InitT /\ [][NextT]_vars

\* The handshake: connect() with every token and timeout option, joined rooms to
\* rejoin, and the connect timer.
ConnectInputs == {<<"alice", Undef>>, <<"alice", 0>>, <<"bob", 2>>}

NextC ==
    \/ Len(reqs) < MaxReq - 2 /\ Join("r1")
    \/ \E in \in ConnectInputs : Connect(in[1], in[2])
    \/ Disconnect
    \/ \E s \in Sockets : EvConnect(s)
    \/ \E s \in Sockets : EvDisconnect(s)
    \/ \E s \in Sockets : EvAuthSuccess(s)
    \/ \E id \in 1..MaxReq : Ack(id)
    \/ \E id \in 1..MaxReq : TimerFire(id)
    \/ \E s \in Sockets : ConnTimerFire(s)

SpecC == InitT /\ [][NextC]_vars

\* The life cycle: connect() on a client that is and is not connected, disconnect()
\* with and without a socket, sends, drops and reconnections of the transport.
LifeInputs == {<<"alice", 0>>, <<"bob", 0>>}

NextL ==
    \/ \E in \in LifeInputs : Connect(in[1], in[2])
    \/ \E in \in LifeInputs : ConnectAgain(in[1], in[2])
    \/ Disconnect
    \/ Len(reqs) < MaxReq - 1 /\ Send("echo", Undef)
    \/ \E s \in Sockets : EvConnect(s)
    \/ \E s \in Sockets : EvDisconnect(s)
    \/ \E s \in Sockets : EvAuthSuccess(s)
    \/ \E id \in 1..MaxReq : Ack(id)
    \/ \E id \in 1..MaxReq : TimerFire(id)

SpecL == InitT /\ [][NextL]_vars

\* The dispatch of the server: every shape of inbound message from a raw connection,
\* and the client's requests to routes with a handler, without one and with a failing one.
NextM ==
    \/ \E message \in PeerMessages : PeerMessage(message)
    \/ \E type \in Routes : Len(reqs) < MaxReq - 2 /\ Send(type, Undef)
    \/ Connect("alice", 0)
    \/ \E s \in Sockets : EvConnect(s)
    \/ \E s \in Sockets : EvAuthSuccess(s)
    \/ \E id \in 1..MaxReq : Ack(id)
    \/ \E id \in 1..MaxReq : TimerFire(id)

SpecM == InitT /\ [][NextM]_vars

\* Rooms on the server: the client and a raw connection join a room, the raw
\* connection leaves it, the server sends to it, and the flushes of stored messages run.
InitR == InitT /\ timeout = 0

NextR ==
    \/ Len(reqs) < MaxReq - 2 /\ Join("r1")
    \/ Connect("alice", 0)
    \/ \E s \in Sockets : EvConnect(s)
    \/ \E s \in Sockets : EvAuthSuccess(s)
    \/ \E id \in 1..MaxReq : Ack(id)
    \/ \E message \in PeerRoomMessages : message.room = "r1" /\ PeerMessage(message)
    \/ RoomSend("r1")
    \/ \E f \in 1..(MaxReq + MaxPeer) : FlushRead(f)
    \/ \E f \in 1..(MaxReq + MaxPeer) : FlushEmit(f)

SpecR == InitR /\ [][NextR]_vars

\* Room membership as the client tracks it: join and leave of two rooms, request
\* timeouts, transport drops with re-authentication and rejoin, and sends to a room.
NextJ ==
    \/ \E room \in Rooms : Len(reqs) < MaxReq - 2 /\ Join(room)
    \/ \E room \in Rooms : Len(reqs) < MaxReq - 2 /\ Leave(room)
    \/ Connect("alice", 0)
    \/ \E s \in Sockets : EvConnect(s)
    \/ \E s \in Sockets : EvDisconnect(s)
    \/ \E s \in Sockets : EvAuthSuccess(s)
    \/ \E id \in 1..MaxReq : Ack(id)
    \/ \E id \in 1..MaxReq : TimerFire(id)
    \/ RoomSend("r1")

SpecJ == InitT /\ [][NextJ]_vars

\* Authentication: connect() with a token the server accepts, with none, with one the
\* auth handler maps to null and with one it throws on, with and without a connect
\* timeout; requests and joins made before, between and after the handshakes.
AuthInputs == {<<t, m>> : t \in HandshakeTokens, m \in {0, 2}}

NextA ==
    \/ \E in \in AuthInputs : Connect(in[1], in[2])
    \/ Disconnect
    \/ Len(reqs) < MaxReq - 2 /\ Send("echo", Undef)
    \/ Len(reqs) < MaxReq - 2 /\ Join("r1")
    \/ \E s \in Sockets : EvConnect(s)
    \/ \E s \in Sockets : EvConnectError(s)
    \/ \E s \in Sockets : EvDisconnect(s)
    \/ \E s \in Sockets : EvAuthSuccess(s)
    \/ \E s \in Sockets : ConnTimerFire(s)
    \/ \E id \in 1..MaxReq : Ack(id)
    \/ \E id \in 1..MaxReq : TimerFire(id)

SpecA == InitT /\ [][NextA]_vars

\* Handshakes and the durable queue: a client with or without IndexedDB, connect()
\* with a token the server accepts and with one it refuses, disconnect(), and the
\* flush of the queue by the auth_success handler.
NextH ==
    \/ \E token \in {"alice", "mallory"} : Connect(token, 0)
    \/ Disconnect
    \/ Len(reqs) < MaxReq - 1 /\ Send("echo", Undef)
    \/ \E s \in Sockets : EvConnect(s)
    \/ \E s \in Sockets : EvConnectError(s)
    \/ \E s \in Sockets : EvAuthSuccess(s)
    \/ \E id \in 1..MaxReq : Ack(id)
    \/ \E id \in 1..MaxReq : TimerFire(id)
    \/ \E h \in 1..MaxAuth : ClearDone(h)
    \/ DbOpenOk
    \/ LoadDone

SpecH == Init /\ [][NextH]_vars

\* Registration: onMessage and setAuthHandler called with valid and invalid
\* parameters, again for a route that has a handler, while a raw connection sends
\* messages to the routes and a client connects.
SetupMessages ==
    {[isObject |-> TRUE, hasType |-> TRUE, type |-> t, data |-> 7, room |-> ""] :
        t \in {"echo", "news"}}

NextS ==
    \/ \E route \in RouteInputs, handler \in HandlerInputs : OnMessage(route, handler)
    \/ \E handler \in AuthHandlerInputs : SetAuthHandler(handler)
    \/ \E message \in SetupMessages : PeerMessage(message)
    \/ \E token \in {"alice", "mallory"} : Connect(token, 0)
    \/ \E s \in Sockets : EvConnect(s)
    \/ \E s \in Sockets : EvConnectError(s)
    \/ \E s \in Sockets : EvAuthSuccess(s)

SpecS == InitR /\ [][NextS]_vars

\* Inbound routing on the client: handlers registered before, during and after a
\* connection, transport drops and reconnects, disconnect() and a new connect(), and
\* messages of the server with and without meta.type.
NextP ==
    \/ \E route \in ClientRoutes, handler \in ClientHandlers : ClientOnMessage(route, handler)
    \/ \E message \in PushMessages : ClientPush(message)
    \/ Connect("alice", 0)
    \/ Disconnect
    \/ \E s \in Sockets : EvConnect(s)
    \/ \E s \in Sockets : EvDisconnect(s)
    \/ \E s \in Sockets : EvAuthSuccess(s)

SpecP == InitR /\ [][NextP]_vars

\* The durable queue with a storage that breaks: sends before and after the break,
\* the open and the load that fail or succeed, connect(), disconnect() and the flush.
InitF == Init /\ useIndexedDB

NextF ==
    \/ Len(reqs) < MaxReq - 1 /\ Send("echo", Undef)
    \/ Connect("alice", 0)
    \/ Disconnect
    \/ \E s \in Sockets : EvConnect(s)
    \/ \E s \in Sockets : EvAuthSuccess(s)
    \/ \E id \in 1..MaxReq : Ack(id)
    \/ \E id \in 1..MaxReq : TimerFire(id)
    \/ \E h \in 1..MaxAuth : ClearDone(h)
    \/ IdbBreaks
    \/ DbOpenOk
    \/ DbOpenFail
    \/ LoadDone
    \/ LoadFail

SpecF == InitF /\ [][NextF]_vars

\* The flush on a connection that stays up: a page with or without stored messages,
\* at most MaxLive sends, one connect(), the acknowledgements and the request timers. A timer that
\* is armed fires and a pending IndexedDB request completes; the acknowledgement of a
\* request is only sure to arrive when no timeout is configured.
MaxLive == 1

AckDue(id) == timeout = 0 /\ Ack(id)

NextV ==
    \/ Cardinality({i \in 1..Len(reqs) : ~reqs[i].prior}) < MaxLive /\ Send("echo", Undef)
    \/ socket = 0 /\ Connect("alice", 0)
    \/ \E s \in Sockets : EvConnect(s)
    \/ \E s \in Sockets : EvAuthSuccess(s)
    \/ \E id \in 1..MaxReq : Ack(id)
    \/ \E id \in 1..MaxReq : TimerFire(id)
    \/ \E h \in 1..MaxAuth : ClearDone(h)
    \/ DbOpenOk
    \/ LoadDone

FairV ==
    /\ \A id \in 1..MaxReq : WF_vars(AckDue(id))
    /\ \A id \in 1..MaxReq : WF_vars(TimerFire(id))
    /\ \A h \in 1..MaxAuth : WF_vars(ClearDone(h))

SpecV == Init /\ [][NextV]_vars /\ FairV

\* ------------------------------------------------------------- sanity
TypeOK ==
    /\ isConnected \in BOOLEAN
    /\ socket \in 0..MaxSock
    /\ isConnected => socket # 0 /\ sockState[socket] = "connected"
    /\ \A s \in Sockets : sockState[s] \in {"connecting", "connected"} => s = socket
    /\ Len(rs) = Len(reqs)
    /\ listeners \in [Sockets -> 0..1]
    /\ \A s \in Sockets : wasConnected[s] <=> listeners[s] = 1
    /\ \A i \in 1..Len(rs) :
          rs[i].tx \in {"none", "buffered", "sent", "acked", "lost", "failed", "unanswered"}
    /\ \A h \in 1..Len(hs) : hs[h].pc \in {"pq", "clear", "rejoin", "done"}
    /\ messageHandlers \in [RouteNames -> Registered \cup {NoHandler}]
    /\ authHandler \in {"app", "default"}
    /\ setupRet.ret \in {"none", "this", "threw"}
    /\ clientMessageHandlers \in [ClientRoutes -> ClientHandlers \cup {NoHandler}]
    /\ Len(pushLog) <= MaxPush

\* ------------------------------------------------------------- claims
Range(f) == {f[i] : i \in 1..Len(f)}
Ids == 1..Len(reqs)
QueueIds == {offlineQueue[i].id : i \in 1..Len(offlineQueue)}
Count(f, x) == Cardinality({i \in 1..Len(f) : f[i] = x})

\* the response the server gives to request id, as its promise receives it
OwnResponse(id) == AckOutcome(HandleMessage(Envelope(reqs, id)))

C2_QueuedSettleWithOwnResponse ==
    [][ /\ \A id \in 1..Len(rs') :
              (id \in Range(enq') /\ ~reqs'[id].prior /\ rs'[id].p.st # "pending")
                  => rs'[id].p = AckOutcome(HandleMessage(Envelope(reqs', id)))
        /\ \A s \in Sockets :
              (conn[s].p.st = "pending" /\ conn'[s].p.st = "resolved") => offlineQueue' = <<>>
      ]_vars

\* C3: every entry that has left offlineQueue has been handed to the socket.
C3_NoEntryDropped ==
    \A id \in Range(enq) : id \in QueueIds \/ id \in Range(wire)

\* C4: once processQueue() of the first auth_success of the restarted page has returned,
\* every request the earlier process left in the store has been emitted.
C4_PersistedEmittedAfterAuth ==
    (Len(hs) >= 1 /\ hs[1].pc # "pq") => \A id \in Ids : reqs[id].prior => id \in Range(wire)

\* C5: in offlineQueue no entry enqueued live by send() precedes a reloaded entry.
C5_ReloadedFirst ==
    \A i, j \in 1..Len(offlineQueue) :
        i < j => ~(offlineQueue[i].live /\ ~offlineQueue[j].live)

\* C6: a request sent while connected whose timer fires before its acknowledgement is
\* rejected with TIMEOUT: <route> (<ms>ms), ms its effective timeout, and it has been
\* emitted once and is not in offlineQueue.
C6_TimeoutRejects ==
    \A id \in Ids :
        (id \notin Range(enq) /\ rs[id].timer = "fired")
            => /\ rs[id].p = Rejected("TIMEOUT", reqs[id].type, rs[id].ms)
               /\ rs[id].ms = EffectiveMs(reqs[id].tmo, timeout)
               /\ rs[id].ms > 0
               /\ Count(wire, id) = 1
               /\ id \notin QueueIds

\* a request sent while connected has timed out and its acknowledgement is still due
C6_Witness ==
    \E id \in Ids : id \notin Range(enq) /\ rs[id].timer = "fired" /\ rs[id].tx = "sent"

\* C7: the timer of one request leaves every other in-flight request as it is, and a
\* request whose acknowledgement arrives before its own timer settles with that
\* acknowledgement.
C7_TimeoutIndependence ==
    [][ /\ \A id \in Ids :
              (rs[id].timer = "armed" /\ rs'[id].timer = "fired")
                  => \A o \in Ids \ {id} : rs[o].tx = "sent" => rs'[o] = rs[o]
        /\ \A id \in Ids :
              (rs[id].tx = "sent" /\ rs'[id].tx = "acked" /\ rs[id].timer # "fired")
                  => rs'[id].p = OwnResponse(id)
      ]_vars

\* request a timed out and is still unanswered while the later request b was answered
C7_Witness ==
    \E a, b \in Ids :
        /\ a < b
        /\ a \notin Range(enq) /\ b \notin Range(enq)
        /\ rs[a].tx = "sent" /\ rs[a].timer = "fired" /\ rs[a].p.msg = "TIMEOUT"
        /\ rs[b].tx = "acked" /\ rs[b].p.st = "resolved"

\* C8: the effective timeout of every send() and connect() is the per-call value when
\* given, else the global one, and a call whose effective timeout is 0 has no timer
\* and is not rejected with TIMEOUT.
C8_EffectiveTimeout ==
    /\ \A id \in Ids :
          LET e == EffectiveMs(reqs[id].tmo, timeout)
          IN  /\ rs[id].ms # Undef => rs[id].ms = e
              /\ e = 0 => rs[id].timer = "off" /\ rs[id].p.msg # "TIMEOUT"
    /\ \A s \in Sockets :
          conn[s].tok # "" =>
              LET e == EffectiveMs(conn[s].tmo, timeout)
              IN  /\ conn[s].ms = e
                  /\ e = 0 => conn[s].timer = "off" /\ conn[s].p.msg # "TIMEOUT"

\* C9: a send() issued while disconnected is never rejected with TIMEOUT.
C9_QueuedNeverTimeout ==
    \A id \in Range(enq) : ~reqs[id].prior => rs[id].p.msg # "TIMEOUT"

C11_ConnectAgainCached ==
    [][ earlyRet' # earlyRet
          => /\ earlyRet' = Resolved(AuthHandler(conn[socket].tok))
             /\ UNCHANGED <<isConnected, socket, sockState, conn, offlineQueue, joinedRooms, rs>>
      ]_vars

\* C12: disconnect() leaves isConnected false and socket null and does not throw,
\* calling it again changes nothing, and on a client without socket it changes nothing.
C12_DisconnectIdempotent ==
    LET c == ConnState
        d == DisconnectFn(c)
    IN  /\ ~d.isConnected
        /\ d.socket = 0
        /\ ~d.threw
        /\ DisconnectFn(d) = d
        /\ c.socket = 0 => d = c

\* disconnect() was called on a connected client with a request in flight
C12_Witness ==
    /\ socket = 0
    /\ ~isConnected
    /\ \E s \in Sockets : sockState[s] = "closed" /\ wasConnected[s]
    /\ \E id \in Ids : rs[id].tx = "lost"

\* C13: a message that is not an object is answered with code 2001, else one without
\* a string meta.type with 2002, else one whose type has no handler with 2003 and the
\* text 'Unknown message type: <type>'; in the three cases no handler is invoked, and
\* the client's send() to a route without handler is rejected with that text.
C13_ValidationCodes ==
    /\ \A i \in 1..Len(peerLog) :
          LET m == peerLog[i].msg
              r == peerLog[i].resp
          IN  /\ ~m.isObject
                    => r.code = 2001 /\ ~r.success /\ ~r.invoked /\ r.acks = 1
              /\ (m.isObject /\ ~m.hasType)
                    => r.code = 2002 /\ ~r.success /\ ~r.invoked /\ r.acks = 1
              /\ (m.isObject /\ m.hasType /\ m.type \in {"", "missing"})
                    => /\ r.code = 2003 /\ ~r.success /\ ~r.invoked /\ r.acks = 1
                       /\ r.error = "Unknown message type" /\ r.arg = m.type
    /\ \A id \in Ids :
          (reqs[id].type = "missing" /\ rs[id].tx = "acked" /\ rs[id].timer # "fired")
              => rs[id].p = Rejected("Unknown message type", "missing", 0)

\* the raw connection got 2001 and 2002 and the client a rejection for an unknown route
C13_Witness ==
    /\ \E i, j \in 1..Len(peerLog) : peerLog[i].resp.code = 2001 /\ peerLog[j].resp.code = 2002
    /\ \E id \in Ids : rs[id].tx = "acked" /\ rs[id].p.msg = "Unknown message type"

\* C14: a request whose handler throws or rejects is answered once with success=false,
\* code 2004 and the handler's error message, the client's send() is rejected with that
\* message, and the server stays up to dispatch the later messages.
C14_HandlerFailure ==
    /\ srvUp
    /\ \A i \in 1..Len(peerLog) :
          LET m == peerLog[i].msg
              r == peerLog[i].resp
          IN  (m.isObject /\ m.hasType /\ m.type \in {"boom", "mute", "void"})
                  => /\ ~r.success /\ r.code = 2004 /\ r.acks = 1 /\ r.error # ""
                     /\ m.type = "boom" => r.error = "Handler exploded"
    /\ \A id \in Ids :
          (reqs[id].type \in {"boom", "void"} /\ rs[id].tx \in {"acked", "unanswered"})
              => /\ rs[id].p.st = "rejected"
                 /\ (reqs[id].type = "boom" /\ rs[id].timer # "fired")
                        => rs[id].p = Rejected("Handler exploded", "", 0)

\* C15: every inbound request gets exactly one acknowledgement, either success=true
\* with the handler's return value and no code or error, or success=false with a code
\* and an error text; a send() made while connected to the echo route resolves with
\* what the handler returned for it.
C15_OneAcknowledgement ==
    /\ \A i \in 1..Len(peerLog) :
          LET m == peerLog[i].msg
              r == peerLog[i].resp
          IN  /\ r.acks = 1
              /\ r.success => r.code = 0 /\ r.error = ""
              /\ ~r.success => r.code # 0 /\ r.error # "" /\ r.data = NoValue
              /\ (m.isObject /\ m.hasType /\ m.type = "echo") => r.success /\ r.data = m.data
    /\ \A id \in Ids :
          /\ rs[id].tx # "unanswered"
          /\ (reqs[id].type = "echo" /\ id \notin Range(enq) /\ rs[id].tx = "acked"
                  /\ rs[id].timer # "fired")
                => rs[id].p = Resolved(id)

\* C16: a message sent to a room that has no connected member is stored and
\* delivered to nobody; when the stored messages of a room are cleared, the
\* connection whose join started that flush has received all of them, in the order
\* they were sent.
C16_StoredThenFlushed ==
    [][\A room \in Rooms :
          /\ (Len(sends') = Len(sends) + 1 /\ sends'[Len(sends')].room = room
                  /\ members[room] = {})
                => /\ roomLog'[room] = Append(roomLog[room], sends'[Len(sends')])
                   /\ inbox' = inbox
          /\ (roomLog[room] # <<>> /\ roomLog'[room] = <<>>)
                => \E f \in 1..Len(flushes) :
                      /\ flushes[f].room = room
                      /\ flushes[f].pc = "emit"
                      /\ inbox'[flushes[f].by] = inbox[flushes[f].by] \o roomLog[room]]_vars

\* C17: no stored message is emitted twice, and the flush that emits the stored
\* messages of a room leaves the room's log empty, also when the flushes of two
\* joins interleave.
C17_EmittedOnce ==
    [][/\ \A i, j \in 1..Len(emitted') : i # j => emitted'[i] # emitted'[j]
       /\ (Len(emitted') > Len(emitted) /\ sends' = sends)
             => roomLog'[emitted'[Len(emitted')].room] = <<>>]_vars

\* C18: once a leave(room) of the client has resolved, with no join(room) called
\* after it and every earlier one resolved, so that the room is not in joinedRooms, a
\* message the server sends to the room reaches no socket of the client; otherwise a
\* socket that is a member of the room receives the message sent.
C18_LeaveStopsDelivery ==
    [][\A room \in Rooms :
          LET joining(id) == reqs[id].kind = "join" /\ reqs[id].room = room
              left == /\ \E id \in 1..Len(reqs) :
                            /\ reqs[id].kind = "leave"
                            /\ reqs[id].room = room
                            /\ rs[id].p.st = "resolved"
                            /\ \A j \in (id + 1)..Len(reqs) : ~joining(j)
                      /\ \A j \in 1..Len(reqs) : joining(j) => rs[j].p.st = "resolved"
                      /\ room \notin Range(joinedRooms)
          IN  (Len(sends') = Len(sends) + 1 /\ sends'[Len(sends')].room = room)
                => \A s \in Sockets :
                      /\ left => inbox'[s] = inbox[s]
                      /\ (~left /\ s \in members[room])
                            => inbox'[s] = Append(inbox[s], sends'[Len(sends')])]_vars

\* C19: a room enters joinedRooms only in the step in which a join request for it
\* resolves, and leaves it only in the step in which a leave request for it resolves;
\* a resolving join adds its room and a resolving leave removes it; in a step in which
\* a join or leave request is rejected or times out joinedRooms does not change.
C19_JoinedRoomsOnAck ==
    [][\A room \in Rooms :
          LET settles(id, kind, st) == /\ reqs[id].kind = kind
                                       /\ reqs[id].room = room
                                       /\ rs[id].p.st = "pending"
                                       /\ rs'[id].p.st = st
          IN  /\ (room \notin Range(joinedRooms) /\ room \in Range(joinedRooms'))
                    => \E id \in 1..Len(reqs) : settles(id, "join", "resolved")
              /\ (room \in Range(joinedRooms) /\ room \notin Range(joinedRooms'))
                    => \E id \in 1..Len(reqs) : settles(id, "leave", "resolved")
              /\ \A id \in 1..Len(reqs) :
                    /\ settles(id, "join", "resolved") => room \in Range(joinedRooms')
                    /\ settles(id, "leave", "resolved") => room \notin Range(joinedRooms')
                    /\ (settles(id, "join", "rejected") \/ settles(id, "leave", "rejected"))
                          => joinedRooms' = joinedRooms]_vars

\* a join has resolved and its room is tracked, and a leave of that room has timed
\* out and left it tracked
C19_Witness ==
    \E i, j \in 1..Len(reqs) :
        /\ reqs[i].kind = "join" /\ rs[i].p.st = "resolved"
        /\ reqs[j].kind = "leave" /\ reqs[j].room = reqs[i].room /\ i < j
        /\ rs[j].p.st = "rejected"
        /\ reqs[i].room \in Range(joinedRooms)

C21_RefusedHandshake ==
    /\ [](\A s \in Sockets :
            LET t == conn[s].tok
                refusal == IF t = "" THEN "AUTH_NULL"
                           ELSE IF AuthThrows(t) THEN "AUTH_ERROR"
                           ELSE IF AuthHandler(t) = 0 THEN "AUTH_FAIL"
                           ELSE ""
            IN  sockState[s] # "unused"
                  => /\ sockState[s] = "refused" => refusal # "" /\ conn[s].err = refusal
                     /\ refusal # ""
                           => /\ sockState[s] # "connected"
                              /\ ~wasConnected[s]
                              /\ ~authPend[s]
                              /\ conn[s].p.st # "resolved"
                              /\ \A h \in 1..Len(hs) : hs[h].sock # s
                              /\ \A room \in Rooms : s \notin members[room])
    /\ [][\A id \in 1..Len(reqs) :
              (rs[id].tx = "sent" /\ rs'[id].tx \in {"acked", "unanswered"})
                => socket # 0 /\ sockState[socket] = "connected"
                     /\ AuthMiddleware(conn[socket].tok).next = "ok"]_vars

\* one handshake was refused for its missing token and another for a token the auth
\* handler does not accept, with a request waiting in the queue
C21_Witness ==
    /\ \E s, t \in Sockets : /\ sockState[s] = "closed" /\ conn[s].err = "AUTH_NULL"
                              /\ sockState[t] = "refused" /\ conn[t].err = "AUTH_FAIL"
    /\ offlineQueue # <<>>

\* C22: while the handshake of the client's socket is refused or has not yet
\* succeeded, the promise of its connect() is not resolved and isConnected is false;
\* in a step taken meanwhile nothing is handed to the socket, no entry leaves
\* offlineQueue, no rejoin request is made and joinedRooms does not change; a run of
\* the auth_success handler starts only on a socket whose handshake has succeeded.
C22_NoReplayBeforeAuth ==
    /\ [](\A s \in Sockets :
            (sockState[s] = "refused" \/ (sockState[s] = "connecting" /\ ~wasConnected[s]))
              => conn[s].p.st # "resolved" /\ (socket = s => ~isConnected))
    /\ [][
          /\ (/\ socket # 0
              /\ socket' = socket
              /\ \/ sockState[socket] = "refused"
                 \/ sockState[socket] = "connecting" /\ ~wasConnected[socket])
                => /\ wire' = wire
                   /\ Len(offlineQueue') >= Len(offlineQueue)
                   /\ SubSeq(offlineQueue', 1, Len(offlineQueue)) = offlineQueue
                   /\ joinedRooms' = joinedRooms
                   /\ \A id \in (Len(reqs) + 1)..Len(reqs') : reqs'[id].kind # "rejoin"
          /\ Len(hs') > Len(hs)
                => /\ wasConnected[hs'[Len(hs')].sock]
                   /\ AuthMiddleware(conn[hs'[Len(hs')].sock].tok).next = "ok"
       ]_vars

\* C23: a settled promise of send(), join() or leave() is resolved with the data of
\* the server's response to the request, or rejected with a TIMEOUT error or with the
\* error text of that response, and with nothing else.
C23_DocumentedRejections ==
    \A id \in Ids :
        (~reqs[id].prior /\ reqs[id].kind \in {"send", "join", "leave"})
          => /\ rs[id].p.st = "resolved" => rs[id].p = OwnResponse(id)
             /\ rs[id].p.st = "rejected"
                   => \/ rs[id].p.msg = "TIMEOUT"
                      \/ rs[id].tx = "acked" /\ rs[id].p = OwnResponse(id)

\* C24: a send() made while disconnected appends exactly one entry, its own, at the
\* tail of offlineQueue, hands nothing to the socket and returns a pending promise;
\* a send equal to one already queued gets an entry of its own.
C24_OfflineSendAppends ==
    [][(/\ Len(reqs') = Len(reqs) + 1
        /\ reqs'[Len(reqs')].kind = "send"
        /\ ~isConnected)
          => /\ offlineQueue' = Append(offlineQueue, [id |-> Len(reqs'), live |-> TRUE])
             /\ rs'[Len(reqs')].p = Pending
             /\ wire' = wire]_vars

\* two equal sends made while disconnected wait in the queue as two entries, both
\* promises pending
C24_Witness ==
    \E i, j \in 1..Len(offlineQueue) :
        /\ i < j
        /\ offlineQueue[i].live /\ offlineQueue[j].live
        /\ reqs[offlineQueue[i].id].type = reqs[offlineQueue[j].id].type
        /\ reqs[offlineQueue[i].id].tmo = reqs[offlineQueue[j].id].tmo
        /\ rs[offlineQueue[i].id].p = Pending /\ rs[offlineQueue[j].id].p = Pending

\* C25: onMessage with a string route and a function handler returns the server and
\* makes that handler the one handler of the route, in place of an earlier one, and
\* changes no other route; with a route that is not a string or a handler that is not
\* a function it throws and leaves the route table as it was; setAuthHandler throws
\* for a handler that is not a function and leaves the auth handler as it was, else
\* sets it and returns the server; a message is answered by the handler its route has
\* at that moment.
C25_OneHandlerPerRoute ==
    [][/\ (setupRet' # setupRet /\ setupRet'.call = "onMessage")
            => LET route == setupRet'.route
                   handler == setupRet'.handler
               IN  /\ authHandler' = authHandler
                   /\ IF route.isString /\ handler.isFunction
                      THEN /\ setupRet'.ret = "this"
                           /\ messageHandlers'[route.name] = handler.id
                           /\ \A o \in RouteNames \ {route.name} :
                                 messageHandlers'[o] = messageHandlers[o]
                      ELSE /\ setupRet'.ret = "threw"
                           /\ messageHandlers' = messageHandlers
       /\ (setupRet' # setupRet /\ setupRet'.call = "setAuthHandler")
            => /\ messageHandlers' = messageHandlers
               /\ IF setupRet'.handler.isFunction
                  THEN setupRet'.ret = "this" /\ authHandler' = setupRet'.handler.id
                  ELSE setupRet'.ret = "threw" /\ authHandler' = authHandler
       /\ setupRet' = setupRet => messageHandlers' = messageHandlers /\ authHandler' = authHandler
       /\ Len(peerLog') > Len(peerLog)
            => LET m == peerLog'[Len(peerLog')].msg
                   r == peerLog'[Len(peerLog')].resp
               IN  /\ r.code = 2003 <=> messageHandlers[m.type] = NoHandler
                   /\ r.code = 2004 <=> messageHandlers[m.type] = "boom"
                   /\ r.success <=> messageHandlers[m.type] = "echo"]_vars

\* the route "echo" has been given the handler "boom" in place of its first one, a
\* message to it was answered by that handler, and the last call threw
C25_Witness ==
    /\ messageHandlers["echo"] = "boom"
    /\ setupRet.ret = "threw"
    /\ \E i \in 1..Len(peerLog) : peerLog[i].msg.type = "echo" /\ peerLog[i].resp.code = 2004

\* C26: the promise of a request settles once and keeps its outcome; it is settled by
\* the acknowledgement (with the server's response) or by the timer (with TIMEOUT),
\* whichever runs first; an acknowledgement that arrives after the timer changes
\* nothing of the promise, and the timer of a request whose acknowledgement has been
\* processed never fires.
C26_SettlesOnce ==
    [][\A id \in Ids :
          /\ rs[id].p.st # "pending" => rs'[id].p = rs[id].p
          /\ (rs[id].p.st = "pending" /\ rs'[id].p.st # "pending")
                => \/ /\ rs[id].tx = "sent" /\ rs'[id].tx = "acked"
                      /\ rs[id].timer # "fired" /\ rs'[id].timer # "fired"
                      /\ rs'[id].p = OwnResponse(id)
                   \/ /\ rs[id].timer = "armed" /\ rs'[id].timer = "fired"
                      /\ rs[id].tx # "acked" /\ rs'[id].tx = rs[id].tx
                      /\ rs'[id].p = Rejected("TIMEOUT", reqs[id].type, rs[id].ms)
          /\ (rs[id].tx = "acked" /\ rs[id].timer # "fired") => rs'[id].timer # "fired"
          /\ (rs[id].tx = "sent" /\ rs'[id].tx = "acked" /\ rs[id].timer = "armed")
                => rs'[id].timer = "cleared"
      ]_vars

\* C27: the store is cleared only by a handler run whose processQueue has emptied
\* offlineQueue with no entry failed, and at that moment every message the store
\* holds has been handled by the server.
C27_ClearedAfterDelivery ==
    [][(store # <<>> /\ store' = <<>>)
          => /\ \E h \in 1..Len(hs') : hs'[h].pc = "clear" /\ hs'[h].cnt = hs'[h].orig
             /\ offlineQueue' = <<>>
             /\ \A i \in 1..Len(store) :
                   /\ rs'[store[i].id].tx \in {"acked", "unanswered"}
                   /\ rs'[store[i].id].p.st # "rejected"
      ]_vars

\* C28: a message sent to a room that has a socket is emitted at once to the sockets
\* of the room and to no other, and the stored messages of every room stay as they
\* are; a message sent to a room without sockets is added at the end of the stored
\* messages of that room only, and nothing is emitted.
C28_EmitOrStore ==
    [][Len(sends') > Len(sends)
          => LET message == sends'[Len(sends')]
                 room == message.room
             IN  IF members[room] # {}
                 THEN /\ roomLog' = roomLog
                      /\ emitted' = Append(emitted, message)
                      /\ \A c \in Conns :
                            inbox'[c] = IF c \in members[room] THEN Append(inbox[c], message)
                                        ELSE inbox[c]
                 ELSE /\ roomLog'[room] = Append(roomLog[room], message)
                      /\ \A o \in Rooms \ {room} : roomLog'[o] = roomLog[o]
                      /\ emitted' = emitted
                      /\ inbox' = inbox
      ]_vars

\* the first message was sent to the room while it was empty and is stored; the
\* second was sent after a socket had joined and went to that socket at once, while
\* the stored message is still in the log
C28_Witness ==
    /\ Len(sends) = 2
    /\ roomLog["r1"] = <<sends[1]>>
    /\ emitted = <<sends[2]>>
    /\ \E c \in Conns : c \in members["r1"] /\ inbox[c] = <<sends[2]>>

\* C29: when a rejoin request is handed to the socket, the socket has its route
\* listener and every entry that was put on offlineQueue has been handed to the
\* socket before it; and when connect() resolves, a run of the auth_success handler
\* of its socket has ended, awaiting no request, and every entry a flush has taken
\* from offlineQueue has been handed to the socket.
C29_ListenerFlushRejoin ==
    [][/\ \A j \in 1..Len(reqs') :
             (reqs'[j].kind = "rejoin" /\ j \notin Range(wire) /\ j \in Range(wire'))
                 => /\ socket' # 0 /\ listeners'[socket'] = 1
                    /\ \A e \in Range(enq') \ {j} : Before(wire', e, j)
       /\ \A s \in Sockets :
             (conn[s].p.st = "pending" /\ conn'[s].p.st = "resolved")
                 => /\ listeners'[s] = 1
                    /\ \A e \in Range(enq') \ QueueIds' : e \in Range(wire')
                    /\ \E h \in 1..Len(hs') :
                          /\ hs'[h].sock = s /\ hs'[h].pc = "done" /\ hs'[h].wait = 0
                          /\ h \in 1..Len(hs) => hs[h].pc # "done"
      ]_vars

\* C30: a socket never has more than one listener of routeEvent and has one from its
\* first connect event on, however often it has reconnected, so that every message
\* the server has emitted to it calls the handler of its route once, and calls
\* nothing when the route has no handler.
C30_OneRouteListener ==
    \A s \in Sockets :
        /\ listeners[s] <= 1
        /\ wasConnected[s] => listeners[s] = 1
        /\ \A i \in 1..Len(inbox[s]) :
              /\ Dispatch(listeners[s], "news") = 1
              /\ Dispatch(listeners[s], NoHandler) = 0

\* the socket has reconnected (two runs of its auth_success handler), has rejoined
\* its room and has been sent a message of the room
C30_Witness ==
    \E s \in Sockets :
        /\ sockState[s] = "connected"
        /\ \E h1, h2 \in 1..Len(hs) : h1 < h2 /\ hs[h1].sock = s /\ hs[h2].sock = s
        /\ \E id \in Ids : reqs[id].kind = "rejoin" /\ rs[id].tx = "acked"
        /\ s \in members["r1"]
        /\ inbox[s] # <<>>

\* C31: joinedRooms changes only in the step in which a join() or leave() of the
\* application resolves; the step in which a rejoin request is made, resolved or
\* rejected, and every other step, leaves joinedRooms as it was.
C31_RejoinKeepsJoinedRooms ==
    [][/\ joinedRooms' # joinedRooms
            => \E id \in Ids :
                  /\ reqs[id].kind \in {"join", "leave"}
                  /\ rs[id].p.st = "pending" /\ rs'[id].p.st = "resolved"
       /\ \A id \in Ids :
             (reqs[id].kind = "rejoin" /\ rs[id].p.st = "pending" /\ rs'[id].p.st # "pending")
                 => joinedRooms' = joinedRooms
       /\ (Len(reqs') > Len(reqs) /\ reqs'[Len(reqs')].kind = "rejoin")
             => joinedRooms' = joinedRooms
      ]_vars

\* after a reconnect the rejoin request of one room was rejected and that of the
\* other resolved, the handler run has ended and both rooms are in joinedRooms
C31_Witness ==
    /\ Len(joinedRooms) = 2
    /\ \E a, b \in Ids :
          /\ reqs[a].kind = "rejoin" /\ rs[a].p.st = "rejected"
          /\ reqs[b].kind = "rejoin" /\ rs[b].p.st = "resolved"
          /\ reqs[a].room # reqs[b].room
    /\ \E h \in 1..Len(hs) : hs[h].pc = "done" /\ hs[h].seen # {}

\* C32: the step in which the connection is lost (the transport drops, the handshake
\* is refused or disconnect() is called) settles no request and leaves offlineQueue
\* and joinedRooms as they were, and a pending request of the application is settled
\* only by its own acknowledgement or by its own timer.
C32_DisconnectSettlesNothing ==
    [][/\ ((isConnected /\ ~isConnected')
           \/ (\E s \in Sockets : /\ sockState[s] \in {"connecting", "connected"}
                                    /\ sockState'[s] \in {"connecting", "refused", "closed"}
                                    /\ sockState'[s] # sockState[s]))
            => /\ \A id \in Ids : rs'[id].p = rs[id].p
               /\ offlineQueue' = offlineQueue
               /\ joinedRooms' = joinedRooms
       /\ \A id \in Ids :
             (~reqs[id].prior /\ rs[id].p.st = "pending" /\ rs'[id].p.st # "pending")
                 => \/ rs[id].tx = "sent" /\ rs'[id].tx = "acked"
                    \/ rs[id].timer = "armed" /\ rs'[id].timer = "fired"
      ]_vars

C40_ClientHandlersKept ==
    [][clientMessageHandlers' # clientMessageHandlers
          => /\ socket # 0
             /\ \E route \in ClientRoutes :
                   /\ clientMessageHandlers'[route] \in ClientHandlers
                   /\ \A o \in ClientRoutes \ {route} :
                         clientMessageHandlers'[o] = clientMessageHandlers[o]
             /\ UNCHANGED <<socket, isConnected, sockState, listeners, wasConnected, pushLog>>
      ]_vars

\* a handler was registered on a socket that has since reconnected, another
\* registration has replaced it, and a message of the route reached the later handler
C40_Witness ==
    \E s \in Sockets :
        /\ sockState[s] = "connected"
        /\ \E h1, h2 \in 1..Len(hs) : h1 < h2 /\ hs[h1].sock = s /\ hs[h2].sock = s
        /\ Len(pushLog) = 2
        /\ pushLog[1].msg.type = "news" /\ pushLog[1].run.handler = "throws"
        /\ pushLog[2].msg.type = "news" /\ pushLog[2].run.handler = "returns"
        /\ pushLog[2].on = s
        /\ clientMessageHandlers["news"] = "returns"
        /\ clientMessageHandlers["alert"] = NoHandler

\* C34: whether the storage works or fails, a send() made offline adds its entry at
\* the end of offlineQueue and its promise stays pending; a failing open, add or
\* getAll settles no request and takes nothing from offlineQueue; and when, with the
\* storage failing, the flush of a handler run has ended, every entry send() had put
\* on offlineQueue without a copy in the store has been handed to the socket.
C34_StorageFailureKeepsQueue ==
    [][/\ (Len(reqs') > Len(reqs) /\ ~isConnected)
            => LET id == Len(reqs')
               IN  /\ offlineQueue' = Append(offlineQueue, [id |-> id, live |-> TRUE])
                   /\ rs'[id].p = Pending
                   /\ \A o \in Ids : rs'[o].p = rs[o].p
       /\ (idbFails' # idbFails \/ (idbFails /\ initPc' # initPc))
            => /\ offlineQueue' = offlineQueue
               /\ rs' = rs
       /\ \A h \in 1..Len(hs') :
             (/\ idbFails
              /\ hs'[h].pc \in {"clear", "rejoin", "done"}
              /\ h \in 1..Len(hs) => hs[h].pc = "pq")
                 => \A e \in Range(enq) :
                       (~reqs[e].prior /\ \A i \in 1..Len(store) : store[i].id # e)
                           => e \in Range(wire')
      ]_vars

\* C35: at most one socket of the client is connecting or connected, and it is
\* this.socket; and the connect() that makes a new socket while the client has one
\* closes the one it had.
C35_OneLiveSocket ==
    /\ [](/\ Cardinality({s \in Sockets : sockState[s] \in {"connecting", "connected"}}) <= 1
          /\ \A s \in Sockets : sockState[s] \in {"connecting", "connected"} => s = socket)
    /\ [][(socket # 0 /\ socket' # 0 /\ socket' # socket)
              => sockState'[socket] = "closed" /\ sockState'[socket'] = "connecting"]_vars

\* connect() was called again while the first socket had not connected: the first
\* socket is closed without ever having connected, the second is this.socket
C35_Witness ==
    /\ socket = 2
    /\ sockState[1] = "closed" /\ ~wasConnected[1]
    /\ sockState[2] \in {"connecting", "connected"}
    /\ conn[1].p.st = "pending"

\* C36: when no request is queued, in flight or pending and no handler run is under
\* way, a room that is not in joinedRooms and whose leave() has resolved, with every
\* join() of the room called before it and resolved, does not have the client's
\* socket among its members on the server.
C36_MembershipAgrees ==
    (/\ socket # 0
     /\ offlineQueue = <<>>
     /\ \A id \in Ids : rs[id].p.st # "pending" /\ rs[id].tx \notin {"none", "sent", "buffered"}
     /\ \A h \in 1..Len(hs) : hs[h].pc = "done")
        => \A room \in Rooms :
              (\E id \in Ids :
                  /\ room \notin Range(joinedRooms)
                  /\ reqs[id].kind = "leave" /\ reqs[id].room = room
                  /\ rs[id].p.st = "resolved"
                  /\ \A j \in Ids :
                        (reqs[j].kind = "join" /\ reqs[j].room = room)
                            => j < id /\ rs[j].p.st = "resolved")
                  => socket \notin members[room]

\* C37: a connection receives the messages of a room in the order in which they were
\* sent to the room: no message stands in its inbox before a message of the same
\* room that was sent earlier.
C37_RoomOrder ==
    \A c \in Conns :
        \A i, j \in 1..Len(inbox[c]) :
            (i < j /\ inbox[c][i].room = inbox[c][j].room) => inbox[c][i].n <= inbox[c][j].n

\* C38: when the stored messages of a room are deleted, each of them has been
\* emitted to the room.
C38_NoStoredMessageLost ==
    [][\A room \in Rooms :
          (roomLog[room] # <<>> /\ roomLog'[room] = <<>>)
              => \A i \in 1..Len(roomLog[room]) : roomLog[room][i] \in Range(emitted')]_vars

====
